---- MODULE Spec2Model ----
(***************************************************************************)
(* A model of dbc_fft.h, the single-file complex FFT library.              *)
(*                                                                         *)
(* The model follows the generic instantiation of the library (the code    *)
(* between "Instantiation section" and the end of the file).  Caller       *)
(* memory is one flat array of cells addressed by integers; a pointer is   *)
(* an address and NULL is 0.  An element is an integer: for log2n <= 2     *)
(* every seed of dbcF_cexpm1 and every twiddle is an integer, so the       *)
(* floating point arithmetic of the code is exact on integer inputs and    *)
(* the model's integer arithmetic is the code's arithmetic (log2n = 3 is   *)
(* reached by the size-8 leaf only, see Sqrt1_2).  For log2n < 3 the SIMD  *)
(* bridge of the float and double instantiations declines every pass      *)
(* (depth==log2n<3 and log2n-depth+1<=3), so all instantiations run the    *)
(* code modelled here.                                                     *)
(*                                                                         *)
(* The non-power-of-two driver works with irrational chirp factors; its    *)
(* memory accesses, allocation and control flow are modelled exactly and   *)
(* the values it leaves in the destination are not tracked (the cells are  *)
(* recorded in the variable opaque).                                       *)
(***************************************************************************)
EXTENDS Integers, Sequences, FiniteSets, TLC

(***************************************************************************)
(* Bounds of the model.                                                    *)
(***************************************************************************)
\* Largest num_elements a modelled call passes.
MaxN == 4
\* Largest scale factor a modelled call passes (scales are 1..MaxScale).
MaxScale == 2

(***************************************************************************)
(* Program constants.                                                      *)
(***************************************************************************)
NULL == 0
DBCF_ERROR_INVALID_ARGUMENT == -1
DBCF_ERROR_OUT_OF_MEMORY == -2
DBCF_TMP_BUF_LOG2 == 10
DBCF_TWIDDLES_BUF_LOG2 == DBCF_TMP_BUF_LOG2 - 1
\* Alignment of the Bluestein buffer when a SIMD butterfly is compiled in.
alignment == 64

DBCF_POW2(n) == 2 ^ n

(***************************************************************************)
(* Layout of the modelled caller memory: four regions of RegionLen cells,  *)
(* followed by the two cells of the driver's stack array dummy[2].         *)
(***************************************************************************)
RegionLen == 2 * MaxN
S1 == NULL + 1
S2 == RegionLen + 1
D1 == 2 * RegionLen + 1
D2 == 3 * RegionLen + 1
MemSize == 4 * RegionLen
dummy == MemSize + 1
Addr == 1..(MemSize + 2)

Sizes == (-1)..MaxN
Scales == 1..MaxScale
DstStrides == {-1, 0, 1, 2}
SrcStrides == {0, 1, 2}
\* Addresses malloc may return (byte addresses; the second is not 64-aligned).
HeapPtrs == {4096, 4104}
\* Values dbcF_detect_simd may return on the modelled builds.
SimdMasks == {0, 3}

VARIABLES
    pc,          \* position of the thread inside the entry point
    args,        \* the arguments dbcF_fft was called with
    entry,       \* which public entry point made the call: "s", "c" or "i"
    mem,         \* caller memory (and the driver's dummy[2])
    mem0,        \* caller memory when the call was made
    written,     \* caller addresses stored to during the call
    rd,          \* caller addresses loaded through a source pointer
    opaque,      \* caller addresses holding an untracked (NPOT) value
    nullRead,    \* a load through a null source pointer happened
    result,      \* <<>> while running, <<r>> once the call returned r
    live,        \* pointers returned by dbcf_malloc and not yet freed
    hmem,        \* the driver's variable mem (pointer malloc returned)
    hbuf,        \* the driver's variable buf (mem rounded up to alignment)
    mallocs,     \* number of dbcf_malloc calls made by the current call
    frees,       \* number of dbcf_free calls made by the current call
    allocFailed, \* dbcf_malloc returned null during the current call
    badFree,     \* dbcf_free was given a pointer malloc did not return
    heapFault,   \* the heap buffer was accessed while not allocated
    cached       \* the static int cached of dbcf_detect_simd (-1: unset)

vars == <<pc, args, entry, mem, mem0, written, rd, opaque, nullRead, result,
          live, hmem, hbuf, mallocs, frees, allocFailed, badFree, heapFault,
          cached>>

(***************************************************************************)
(* Loads and stores.  A memory state is a record [m, w]: the cells and the *)
(* set of addresses stored to so far.                                      *)
(***************************************************************************)
Load(S, a) == S.m[a]

Store(S, a, v) ==
    [S EXCEPT !.m = IF a \in DOMAIN S.m THEN [S.m EXCEPT ![a] = v] ELSE S.m,
              !.w = S.w \cup {a}]

(***************************************************************************)
(* The bit-reverse table.  Entry i of the table at offset 2^k is given by  *)
(* the macro DBCF_Rk(0,1): DBCF_Rk(n,c) is DBCF_R(k-1)(n,2c) followed by   *)
(* DBCF_R(k-1)(n+c,2c), and DBCF_R0(n,c) is the single entry n.            *)
(***************************************************************************)
RECURSIVE DBCF_R(_, _, _, _)
DBCF_R(k, n, c, i) ==
    IF k = 0 THEN n
    ELSE IF i < DBCF_POW2(k - 1)
         THEN DBCF_R(k - 1, n, 2 * c, i)
         ELSE DBCF_R(k - 1, n + c, 2 * c, i - DBCF_POW2(k - 1))

\* (dbcF_bitreverse_table + DBCF_POW2(bits))[i], for bits <= 8.
dbcF_bitreverse_table(bits, i) == DBCF_R(bits, 0, 1, i)

(***************************************************************************)
(* dbcF_bitreversal_permutation, the regimes for log2n <= 8.               *)
(***************************************************************************)
RECURSIVE bitreversal_broadcast(_, _, _, _, _, _)
bitreversal_broadcast(S, i, n, x, dst, dst_stride) ==
    IF i >= n THEN S
    ELSE bitreversal_broadcast(Store(S, dst + i * dst_stride, x),
                               i + 1, n, x, dst, dst_stride)

\* The in-place pair swap without the test i<j.
RECURSIVE bitreversal_inplace_noguard(_, _, _, _, _)
bitreversal_inplace_noguard(S, i, log2n, dst, dst_stride) ==
    IF i >= DBCF_POW2(log2n) THEN S
    ELSE LET j == dbcF_bitreverse_table(log2n, i)
             x == Load(S, dst + i * dst_stride)
             y == Load(S, dst + j * dst_stride)
             S1a == Store(S, dst + i * dst_stride, y)
             S2a == Store(S1a, dst + j * dst_stride, x)
         IN bitreversal_inplace_noguard(S2a, i + 1, log2n, dst, dst_stride)

RECURSIVE bitreversal_inplace(_, _, _, _, _)
bitreversal_inplace(S, i, log2n, dst, dst_stride) ==
    IF i >= DBCF_POW2(log2n) THEN S
    ELSE LET j == dbcF_bitreverse_table(log2n, i)
             x == Load(S, dst + i * dst_stride)
             y == Load(S, dst + j * dst_stride)
             S1a == Store(S, dst + i * dst_stride, y)
             S2a == Store(S1a, dst + j * dst_stride, x)
         IN bitreversal_inplace(IF i < j THEN S2a ELSE S,
                                i + 1, log2n, dst, dst_stride)

RECURSIVE bitreversal_scatter(_, _, _, _, _, _, _)
bitreversal_scatter(S, i, log2n, src, src_stride, dst, dst_stride) ==
    IF i >= DBCF_POW2(log2n) THEN S
    ELSE LET j == dbcF_bitreverse_table(log2n, i)
         IN bitreversal_scatter(
                Store(S, dst + j * dst_stride, Load(S, src + i * src_stride)),
                i + 1, log2n, src, src_stride, dst, dst_stride)

dbcF_bitreversal_permutation(S, log2n, src, src_stride, dst, dst_stride) ==
    IF src_stride = 0
    THEN bitreversal_broadcast(S, 0, DBCF_POW2(log2n), Load(S, src),
                               dst, dst_stride)
    ELSE IF src = dst
    THEN bitreversal_inplace(S, 0, log2n, dst, dst_stride)
    ELSE bitreversal_scatter(S, 0, log2n, src, src_stride, dst, dst_stride)

(***************************************************************************)
(* Twiddles.  dbcF_cexpm1(k) is exp(2*pi*i/2^k)-1 as the pair <<re, im>>;  *)
(* the table rows 0..2 are integers.  Row 3 is <<sqrt(1/2)-1, sqrt(1/2)>>: *)
(* the model writes the irrational sqrt(1/2) as the integer Sqrt1_2, a     *)
(* formal unit far above every integer the model computes with, so that    *)
(* the integer a + b*Sqrt1_2 stands for the number a + b*sqrt(1/2) and     *)
(* sums and integer multiples of such numbers are the model's integer sums *)
(* and multiples.  A value with b = 0 is an integer the code computes      *)
(* exactly; one with b # 0 is the real number the code rounds.  Rows 4 and *)
(* up are not used by the sizes the model reaches.                         *)
(***************************************************************************)
Sqrt1_2 == 1048576

dbcF_cexpm1(log2n) ==
    CASE log2n = 0 -> <<0, 0>>
      [] log2n = 1 -> <<-2, 0>>
      [] log2n = 2 -> <<-1, 1>>
      [] log2n = 3 -> <<Sqrt1_2 - 1, Sqrt1_2>>

\* The doubling loop without if(!inverse) y=-y: the inverse twiddles always.
RECURSIVE compute_twiddles_loop_nosign(_, _, _, _, _)
compute_twiddles_loop_nosign(T, i, log2n, log2b, inverse) ==
    IF i >= log2b THEN T
    ELSE LET k == DBCF_POW2(i)
             c == dbcF_cexpm1(log2n - i)
             x == c[1]
             y == c[2]
             T2 == [re |-> [d \in 0..(2 * k - 1) |->
                              IF d < k THEN T.re[d]
                              ELSE (x * T.re[d - k] - y * T.im[d - k])
                                   + (x + T.re[d - k])],
                    im |-> [d \in 0..(2 * k - 1) |->
                              IF d < k THEN T.im[d]
                              ELSE (y * T.re[d - k] + x * T.im[d - k])
                                   + (y + T.im[d - k])]]
         IN compute_twiddles_loop_nosign(T2, i + 1, log2n, log2b, inverse)

\* One round of the doubling loop of dbcF_compute_twiddles: entries k..2k-1
\* from entries 0..k-1, in the (cos-1, sin) form.
RECURSIVE compute_twiddles_loop(_, _, _, _, _)
compute_twiddles_loop(T, i, log2n, log2b, inverse) ==
    IF i >= log2b THEN T
    ELSE LET k == DBCF_POW2(i)
             c == dbcF_cexpm1(log2n - i)
             x == c[1]
             y == IF inverse = 0 THEN -c[2] ELSE c[2]
             T2 == [re |-> [d \in 0..(2 * k - 1) |->
                              IF d < k THEN T.re[d]
                              ELSE (x * T.re[d - k] - y * T.im[d - k])
                                   + (x + T.re[d - k])],
                    im |-> [d \in 0..(2 * k - 1) |->
                              IF d < k THEN T.im[d]
                              ELSE (y * T.re[d - k] + x * T.im[d - k])
                                   + (y + T.im[d - k])]]
         IN compute_twiddles_loop(T2, i + 1, log2n, log2b, inverse)

\* tr[0..2^log2b), ti[0..2^log2b) as the record [re, im] of two functions.
dbcF_compute_twiddles(log2n, log2b, inverse) ==
    LET T == compute_twiddles_loop([re |-> [d \in {0} |-> 0],
                                    im |-> [d \in {0} |-> 0]],
                                   0, log2n, log2b, inverse)
    IN [re |-> [d \in DOMAIN T.re |-> 1 + T.re[d]], im |-> T.im]

(***************************************************************************)
(* dbcF_butterfly_pass, the branch log2n-1 <= log2t (all the twiddles the  *)
(* block needs are in the buffer).                                         *)
(***************************************************************************)
\* One butterfly without the multiplication by the twiddle.
butterfly_step_untwiddled(S, lr, li, hr, hi, C, Sn) ==
    LET xl == Load(S, lr)
        yl == Load(S, li)
        xr == Load(S, hr)
        yr == Load(S, hi)
    IN Store(Store(Store(Store(S, lr, xl + xr), li, yl + yr), hr, xl - xr),
             hi, yl - yr)

\* One butterfly of the unrolled loop: (L, H) <- (L + w*H, L - w*H), w=(C,Sn).
butterfly_step(S, lr, li, hr, hi, C, Sn) ==
    LET xl == Load(S, lr)
        yl == Load(S, li)
        xr == Load(S, hr)
        yr == Load(S, hi)
        x == C * xr - Sn * yr
        y == Sn * xr + C * yr
    IN Store(Store(Store(Store(S, lr, xl + x), li, yl + y), hr, xl - x),
             hi, yl - y)

\* The body of the loop taken when h = 1 (no twiddle multiplication).
butterfly_step_h1(S, lr, li, hr, hi) ==
    LET xl == Load(S, lr)
        yl == Load(S, li)
        xr == Load(S, hr)
        yr == Load(S, hi)
    IN Store(Store(Store(Store(S, lr, xl + xr), li, yl + yr), hr, xl - xr),
             hi, yl - yr)

\* for(d=0;d<h;d+=2): two butterflies per iteration.
RECURSIVE butterfly_pass_inner(_, _, _, _, _, _, _, _, _, _)
butterfly_pass_inner(S, d, h, LR, LI, HR, HI, real_stride, imag_stride, T) ==
    IF d >= h THEN S
    ELSE LET Sa == butterfly_step(S, LR + d * real_stride,
                                  LI + d * imag_stride,
                                  HR + d * real_stride,
                                  HI + d * imag_stride, T.re[d], T.im[d])
             Sb == butterfly_step(Sa, LR + (d + 1) * real_stride,
                                  LI + (d + 1) * imag_stride,
                                  HR + (d + 1) * real_stride,
                                  HI + (d + 1) * imag_stride,
                                  T.re[d + 1], T.im[d + 1])
         IN butterfly_pass_inner(Sb, d + 2, h, LR, LI, HR, HI,
                                 real_stride, imag_stride, T)

\* for(i=0;i<c;++i): one block of size n per iteration.
RECURSIVE butterfly_pass_blocks(_, _, _, _, _, _, _, _, _)
butterfly_pass_blocks(S, i, c, log2n, real, imag, real_stride, imag_stride, T) ==
    IF i >= c THEN S
    ELSE LET n == DBCF_POW2(log2n)
             h == n \div 2
             LR == real + i * n * real_stride
             LI == imag + i * n * imag_stride
             HR == LR + h * real_stride
             HI == LI + h * imag_stride
             S2a == IF h > 1
                    THEN butterfly_pass_inner(S, 0, h, LR, LI, HR, HI,
                                              real_stride, imag_stride, T)
                    ELSE butterfly_step_h1(S, LR, LI, HR, HI)
         IN butterfly_pass_blocks(S2a, i + 1, c, log2n, real, imag,
                                  real_stride, imag_stride, T)

dbcF_butterfly_pass(S, log2n, log2c, real, imag, real_stride, imag_stride, T) ==
    IF log2n = 0 THEN S
    ELSE butterfly_pass_blocks(S, 0, DBCF_POW2(log2c), log2n, real, imag,
                               real_stride, imag_stride, T)

(***************************************************************************)
(* dbcF_fft8: the hand-coded size-8 leaf; c is sqrt(2)/2 = tr[0] after     *)
(* dbcF_cexp(3,tr,ti).                                                     *)
(***************************************************************************)
dbcF_cexp(log2n) == <<1 + dbcF_cexpm1(log2n)[1], dbcF_cexpm1(log2n)[2]>>

dbcF_fft8(S, real, imag, real_stride, imag_stride, inverse, c) ==
    LET r == [k \in 0..7 |-> Load(S, real + k * real_stride)]
        i == [k \in 0..7 |-> Load(S, imag + k * imag_stride)]
        R0 == r[0] + r[1]  R1 == r[0] - r[1]
        I0 == i[0] + i[1]  I1 == i[0] - i[1]
        R2 == r[2] + r[3]  R3 == r[2] - r[3]
        I2 == i[2] + i[3]  I3 == i[2] - i[3]
        R4 == r[4] + r[5]  R5 == r[4] - r[5]
        I4 == i[4] + i[5]  I5 == i[4] - i[5]
        R6 == r[6] + r[7]  R7 == r[6] - r[7]
        I6 == i[6] + i[7]  I7 == i[6] - i[7]
        f == inverse = 0
        r0 == R0 + R2                          i0 == I0 + I2
        r1 == IF f THEN R1 + I3 ELSE R1 - I3   i1 == IF f THEN I1 - R3 ELSE I1 + R3
        r2 == R0 - R2                          i2 == I0 - I2
        r3 == IF f THEN R1 - I3 ELSE R1 + I3   i3 == IF f THEN I1 + R3 ELSE I1 - R3
        r4 == R4 + R6                          i4 == I4 + I6
        r5 == IF f THEN R5 + I7 ELSE R5 - I7   i5 == IF f THEN I5 - R7 ELSE I5 + R7
        r6 == R4 - R6                          i6 == I4 - I6
        r7 == IF f THEN R5 - I7 ELSE R5 + I7   i7 == IF f THEN I5 + R7 ELSE I5 - R7
        p5 == c * (r5 + i5)  m5 == c * (r5 - i5)
        p7 == c * (r7 + i7)  m7 == c * (r7 - i7)
        outr == IF f
                THEN <<r0 + r4, r1 + p5, r2 + i6, r3 - m7,
                       r0 - r4, r1 - p5, r2 - i6, r3 + m7>>
                ELSE <<r0 + r4, r1 + m5, r2 - i6, r3 - p7,
                       r0 - r4, r1 - m5, r2 + i6, r3 + p7>>
        outi == IF f
                THEN <<i0 + i4, i1 - m5, i2 - r6, i3 - p7,
                       i0 - i4, i1 + m5, i2 + r6, i3 + p7>>
                ELSE <<i0 + i4, i1 + p5, i2 + r6, i3 + m7,
                       i0 - i4, i1 - p5, i2 - r6, i3 - m7>>
        W[k \in 0..8] ==
            IF k = 0 THEN S
            ELSE Store(Store(W[k - 1], real + (k - 1) * real_stride, outr[k]),
                       imag + (k - 1) * imag_stride, outi[k])
    IN W[8]

\* for(j=0;j<m;++j) dbcF_fft8(real+8*real_stride*j, imag+8*imag_stride*j, ...)
RECURSIVE fft8_leaves(_, _, _, _, _, _, _, _, _)
fft8_leaves(S, j, m, real, imag, real_stride, imag_stride, inverse, c) ==
    IF j >= m THEN S
    ELSE fft8_leaves(dbcF_fft8(S, real + 8 * real_stride * j,
                               imag + 8 * imag_stride * j,
                               real_stride, imag_stride, inverse, c),
                     j + 1, m, real, imag, real_stride, imag_stride,
                     inverse, c)

(***************************************************************************)
(* dbcF_butterfly_multipass: the passes log2n-depth+1 .. log2n.  The three *)
(* bottom passes are one sweep of FFT-8 leaves when depth==log2n>=3;       *)
(* otherwise one pass per iteration.                                       *)
(***************************************************************************)
RECURSIVE dbcF_butterfly_multipass(_, _, _, _, _, _, _, _, _)
dbcF_butterfly_multipass(S, log2n, log2c, depth, real, imag, real_stride, imag_stride, inverse) ==
    IF depth <= 0 THEN S
    ELSE IF depth = log2n /\ depth >= 3
    THEN dbcF_butterfly_multipass(
             fft8_leaves(S, 0, DBCF_POW2(log2n + log2c - 3), real, imag,
                         real_stride, imag_stride, inverse, dbcF_cexp(3)[1]),
             log2n, log2c, depth - 3, real, imag,
             real_stride, imag_stride, inverse)
    ELSE LET log2d == log2n - depth + 1
             log2t == IF log2d - 1 < DBCF_TWIDDLES_BUF_LOG2
                      THEN log2d - 1 ELSE DBCF_TWIDDLES_BUF_LOG2
             T == dbcF_compute_twiddles(log2d, log2t, inverse)
             S2a == dbcF_butterfly_pass(S, log2d, log2c + log2n - log2d,
                                        real, imag, real_stride, imag_stride,
                                        T)
         IN dbcF_butterfly_multipass(S2a, log2n, log2c, depth - 1, real, imag,
                                     real_stride, imag_stride, inverse)

\* log2n <= 12: one multipass of full depth.
dbcF_butterfly(S, log2n, real, imag, real_stride, imag_stride, inverse) ==
    dbcF_butterfly_multipass(S, log2n, 0, log2n, real, imag,
                             real_stride, imag_stride, inverse)

(***************************************************************************)
(* dbcF_fft_pot, in three steps: the two bit-reversal permutations (the    *)
(* only step that reads the source), the butterflies, the scaling loop.    *)
(***************************************************************************)
RECURSIVE Log2Loop(_, _)
\* while(n) {n>>=1;++log2n;} starting from log2n = -1.
Log2Loop(n, log2n) == IF n = 0 THEN log2n ELSE Log2Loop(n \div 2, log2n + 1)

\* if(!src_real) {src_real=dummy;src_real_stride=0;} (and the same for imag)
pot_src(a) ==
    [sr  |-> IF a.sr = NULL THEN dummy ELSE a.sr,
     srs |-> IF a.sr = NULL THEN 0 ELSE a.srs,
     si  |-> IF a.si = NULL THEN dummy + 1 ELSE a.si,
     sis |-> IF a.si = NULL THEN 0 ELSE a.sis]

fft_pot_bitreversal(S, a) ==
    LET log2n == Log2Loop(a.n, -1)
        p == pot_src(a)
        S0 == [S EXCEPT !.m = [S.m EXCEPT ![dummy] = 0, ![dummy + 1] = 0]]
        Sr == dbcF_bitreversal_permutation(S0, log2n, p.sr, p.srs, a.dr, a.drs)
    IN dbcF_bitreversal_permutation(Sr, log2n, p.si, p.sis, a.di, a.dis)

fft_pot_butterfly(S, a) ==
    dbcF_butterfly(S, Log2Loop(a.n, -1), a.dr, a.di, a.drs, a.dis, a.inverse)

\* for(i=0;i<num_elements;++i) {dst_real[i]=dst_real[i]*scale; ...}
RECURSIVE fft_pot_scale_loop(_, _, _)
fft_pot_scale_loop(S, i, a) ==
    IF i >= a.n THEN S
    ELSE LET Sa == Store(S, a.dr + i, Load(S, a.dr + i) * a.scale)
             Sb == Store(Sa, a.di + i, Load(Sa, a.di + i) * a.scale)
         IN fft_pot_scale_loop(Sb, i + 1, a)

fft_pot_scale(S, a) ==
    IF a.scale # 1 THEN fft_pot_scale_loop(S, 0, a) ELSE S

\* The whole of dbcF_fft_pot on memory state S.
fft_pot(S, a) ==
    fft_pot_scale(fft_pot_butterfly(fft_pot_bitreversal(S, a), a), a)

\* Caller addresses the bit-reversal loads through one source pointer.
fft_pot_reads(p, stride, dst, n, isnull) ==
    IF isnull THEN {}
    ELSE IF stride = 0 THEN {p}
    ELSE IF p = dst
    THEN {p + i * stride : i \in {k \in 0..(n - 1) :
              dbcF_bitreverse_table(Log2Loop(n, -1), k) # k}}
    ELSE {p + i * stride : i \in 0..(n - 1)}

(***************************************************************************)
(* dbcF_fft: dbcF_init, the validation chain and the dispatch.             *)
(***************************************************************************)
RECURSIVE BitAnd(_, _)
\* x & y for x, y >= 0.
BitAnd(x, y) ==
    IF x = 0 \/ y = 0 THEN 0
    ELSE 2 * BitAnd(x \div 2, y \div 2) + (IF x % 2 = 1 /\ y % 2 = 1 THEN 1 ELSE 0)

\* The chain of returns before the dispatch, with the size check moved
\* behind the alias checks.
dbcF_fft_validate_sizelast(a) ==
    IF a.sr = a.dr /\ a.srs # a.drs THEN "invalid"
    ELSE IF a.si = a.di /\ a.sis # a.dis THEN "invalid"
    ELSE IF a.si = a.dr THEN "invalid"
    ELSE IF a.sr = a.di THEN "invalid"
    ELSE IF a.n < 1 THEN "noop"
    ELSE IF BitAnd(a.n, a.n - 1) # 0 THEN "npot"
    ELSE "pot"

\* The chain of returns before the dispatch, without the last alias check.
dbcF_fft_validate_nocross(a) ==
    IF a.n < 1 THEN "noop"
    ELSE IF a.sr = a.dr /\ a.srs # a.drs THEN "invalid"
    ELSE IF a.si = a.di /\ a.sis # a.dis THEN "invalid"
    ELSE IF a.si = a.dr THEN "invalid"
    ELSE IF BitAnd(a.n, a.n - 1) # 0 THEN "npot"
    ELSE "pot"

\* The chain of returns of dbcF_fft and the driver it dispatches to.
dbcF_fft_validate(a) ==
    IF a.n < 1 THEN "noop"
    ELSE IF a.sr = a.dr /\ a.srs # a.drs THEN "invalid"
    ELSE IF a.si = a.di /\ a.sis # a.dis THEN "invalid"
    ELSE IF a.si = a.dr THEN "invalid"
    ELSE IF a.sr = a.di THEN "invalid"
    ELSE IF BitAnd(a.n, a.n - 1) # 0 THEN "npot"
    ELSE "pot"

\* cached=dbcF_detect_simd(); on every call.
dbcF_init_uncached(c, detected) == detected

\* static int cached=-1; if(cached==-1) cached=dbcF_detect_simd();
dbcF_init(c, detected) == IF c = -1 THEN detected ELSE c

(***************************************************************************)
(* The public entry points: the arguments each passes to dbcF_fft.         *)
(***************************************************************************)
dbc_fft_s_args(n, sr, si, srs, sis, dr, di, drs, dis, inverse, scale) ==
    [n |-> n, sr |-> sr, si |-> si, srs |-> srs, sis |-> sis,
     dr |-> dr, di |-> di, drs |-> drs, dis |-> dis,
     inverse |-> inverse, scale |-> scale]

dbc_fft_c_args(n, sr, si, dr, di, inverse, scale) ==
    [n |-> n, sr |-> sr, si |-> si, srs |-> 1, sis |-> 1,
     dr |-> dr, di |-> di, drs |-> 1, dis |-> 1,
     inverse |-> inverse, scale |-> scale]

dbc_fft_i_args(n, src, dst, inverse, scale) ==
    [n |-> n,
     sr |-> src, si |-> IF src # NULL THEN src + 1 ELSE src,
     srs |-> IF src # NULL THEN 2 ELSE 0,
     sis |-> IF src # NULL THEN 2 ELSE 0,
     dr |-> dst, di |-> dst + 1,
     drs |-> IF src # NULL THEN 2 ELSE 0,
     dis |-> IF src # NULL THEN 2 ELSE 0,
     inverse |-> inverse, scale |-> scale]

(***************************************************************************)
(* The calls the model makes.  The caller owns the four regions; a pointer *)
(* to a region used with a negative stride points at its last element.     *)
(* Besides separate buffers the caller may pass a null source, the         *)
(* destination itself (in place), the other channel's destination (cross   *)
(* alias), or a source one element below the destination (partial          *)
(* overlap).  For num_elements >= 1 every non-null pointer must address    *)
(* num_elements cells of caller memory and the destinations are non-null.  *)
(***************************************************************************)
InputValue(x) == x

InputMem == [x \in Addr |-> IF x <= MemSize THEN InputValue(x) ELSE 0]

Base(region, stride, n) ==
    IF stride < 0 /\ n >= 1 THEN region + (n - 1) * (-stride) ELSE region

InBounds(p, stride, n) ==
    \A k \in 0..(n - 1) : p + k * stride \in 1..MemSize

CallOK(a) ==
    a.n >= 1 =>
        /\ a.dr # NULL /\ InBounds(a.dr, a.drs, a.n)
        /\ a.di # NULL /\ InBounds(a.di, a.dis, a.n)
        /\ a.sr # NULL => InBounds(a.sr, a.srs, a.n)
        /\ a.si # NULL => InBounds(a.si, a.sis, a.n)

DstRealPtrs(n, drs) ==
    {Base(D1, drs, n)} \cup (IF n < 1 THEN {NULL} ELSE {})

DstImagPtrs(n, dis, dr) ==
    {Base(D2, dis, n)} \cup (IF dr # NULL THEN {dr + 1} ELSE {NULL})

SrcRealPtrs(n, srs, dr, di) ==
    {NULL, Base(S1, srs, n), dr, di} \cup (IF dr # NULL THEN {dr - 1} ELSE {})

SrcImagPtrs(n, sis, dr, di) == {NULL, Base(S2, sis, n), di, dr}

\* The state on entry to dbcF_fft with arguments a, up to the dispatch.
Enter(a, e) ==
    /\ pc = "idle"
    /\ CallOK(a)
    /\ args' = a
    /\ entry' = e
    /\ mem' = InputMem
    /\ mem0' = InputMem
    /\ written' = {}
    /\ rd' = {}
    /\ opaque' = {}
    /\ nullRead' = FALSE
    /\ mallocs' = 0
    /\ frees' = 0
    /\ allocFailed' = FALSE
    /\ badFree' = FALSE
    /\ heapFault' = FALSE
    /\ hmem' = NULL
    /\ hbuf' = NULL
    /\ UNCHANGED live
    /\ \E detected \in SimdMasks : cached' = dbcF_init(cached, detected)
    /\ LET v == dbcF_fft_validate(a)
       IN /\ pc' = IF v \in {"noop", "invalid"} THEN "ret" ELSE v
          /\ result' = CASE v = "noop" -> <<0>>
                         [] v = "invalid" -> <<DBCF_ERROR_INVALID_ARGUMENT>>
                         [] OTHER -> <<>>

\* dbc_fft_{f,d,l}s and dbc_ifft_{f,d,l}s
dbc_fft_s ==
    /\ pc = "idle"
    /\ \E n \in Sizes, inverse \in {0, 1}, scale \in Scales,
          drs \in DstStrides, dis \in DstStrides,
          srs \in SrcStrides, sis \in SrcStrides :
      \E dr \in DstRealPtrs(n, drs) :
        \E di \in DstImagPtrs(n, dis, dr) :
          \E sr \in SrcRealPtrs(n, srs, dr, di), si \in SrcImagPtrs(n, sis, dr, di) :
            Enter(dbc_fft_s_args(n, sr, si, srs, sis, dr, di, drs, dis,
                                 inverse, scale), "s")

\* dbc_fft_{f,d,l}c and dbc_ifft_{f,d,l}c
dbc_fft_c ==
    /\ pc = "idle"
    /\ \E n \in Sizes, inverse \in {0, 1}, scale \in Scales :
      \E dr \in DstRealPtrs(n, 1) :
        \E di \in DstImagPtrs(n, 1, dr) :
          \E sr \in SrcRealPtrs(n, 1, dr, di), si \in SrcImagPtrs(n, 1, dr, di) :
            Enter(dbc_fft_c_args(n, sr, si, dr, di, inverse, scale), "c")

\* dbc_fft_{f,d,l}i and dbc_ifft_{f,d,l}i
dbc_fft_i ==
    /\ pc = "idle"
    /\ \E n \in Sizes, inverse \in {0, 1}, scale \in Scales :
      \E dst \in DstRealPtrs(n, 2) :
        \E src \in {NULL, S1, dst} \cup (IF dst # NULL THEN {dst - 1} ELSE {}) :
          /\ n >= 1 => InBounds(dst + 1, 2, n)
          /\ (n >= 1 /\ src # NULL) => InBounds(src + 1, 2, n)
          /\ Enter(dbc_fft_i_args(n, src, dst, inverse, scale), "i")

(***************************************************************************)
(* The power-of-two driver dbcF_fft_pot, step by step.                     *)
(***************************************************************************)
CallVars == <<args, entry, mem0, cached>>
HeapVars == <<live, hmem, hbuf, mallocs, frees, allocFailed, badFree, heapFault>>

PotBitreversal ==
    /\ pc = "pot"
    /\ LET S == fft_pot_bitreversal([m |-> mem, w |-> written], args)
       IN /\ mem' = S.m
          /\ written' = S.w
    /\ rd' = fft_pot_reads(args.sr, args.srs, args.dr, args.n, args.sr = NULL)
             \cup fft_pot_reads(args.si, args.sis, args.di, args.n, args.si = NULL)
    /\ pc' = "pot_butterfly"
    /\ UNCHANGED <<CallVars, HeapVars, opaque, nullRead, result>>

PotButterfly ==
    /\ pc = "pot_butterfly"
    /\ LET S == fft_pot_butterfly([m |-> mem, w |-> written], args)
       IN /\ mem' = S.m
          /\ written' = S.w
    /\ pc' = "pot_scale"
    /\ UNCHANGED <<CallVars, HeapVars, rd, opaque, nullRead, result>>

PotScale ==
    /\ pc = "pot_scale"
    /\ LET S == fft_pot_scale([m |-> mem, w |-> written], args)
       IN /\ mem' = S.m
          /\ written' = S.w
    /\ pc' = "ret"
    /\ result' = <<0>>
    /\ UNCHANGED <<CallVars, HeapVars, rd, opaque, nullRead>>

(***************************************************************************)
(* The non-power-of-two driver dbcF_fft_npot, step by step.                *)
(***************************************************************************)
RECURSIVE npot_log2m(_, _)
\* while(DBCF_POW2(log2m)<2*n-1) ++log2m;
npot_log2m(n, log2m) ==
    IF DBCF_POW2(log2m) < 2 * n - 1 THEN npot_log2m(n, log2m + 1) ELSE log2m

\* buf: mem rounded up to the next multiple of alignment.
npot_buf(p) ==
    IF alignment # 0 /\ (p % alignment) # 0
    THEN p + (alignment - (p % alignment)) ELSE p

\* if(!(mem=dbcf_malloc(...))) return DBCF_ERROR_OUT_OF_MEMORY;  unchecked.
npot_malloc_failed_unchecked(p) == FALSE

\* if(!(mem=dbcf_malloc(...))) return DBCF_ERROR_OUT_OF_MEMORY;
npot_malloc_failed(p) == p = NULL

\* dbcf_free(buf) in place of dbcf_free(mem).
npot_free_arg_buf(mem_, buf_) == buf_

\* dbcf_free(mem);
npot_free_arg(mem_, buf_) == mem_

\* The slots dst_real[i*dst_real_stride], dst_imag[i*dst_imag_stride], i<n.
DstSlots(a) ==
    {a.dr + i * a.drs : i \in 0..(a.n - 1)}
    \cup {a.di + i * a.dis : i \in 0..(a.n - 1)}

NpotAlloc ==
    /\ pc = "npot"
    /\ \E p \in {NULL} \cup (HeapPtrs \ live) :
          /\ hmem' = p
          /\ hbuf' = npot_buf(p)
          /\ live' = IF p = NULL THEN live ELSE live \cup {p}
          /\ allocFailed' = (p = NULL)
          /\ IF npot_malloc_failed(p)
             THEN /\ pc' = "ret"
                  /\ result' = <<DBCF_ERROR_OUT_OF_MEMORY>>
             ELSE /\ pc' = "npot_pre"
                  /\ UNCHANGED result
    /\ mallocs' = mallocs + 1
    /\ UNCHANGED <<CallVars, mem, written, rd, opaque, nullRead, frees,
                   badFree, heapFault>>

\* dbcF_compute_twiddles_npot, the pre-chirp loop over the source and the
\* zero padding of a and b.  A load through a null source pointer is
\* undefined: the process is killed or the load yields some value.
NpotPreChirp ==
    /\ pc = "npot_pre"
    /\ heapFault' = (heapFault \/ hmem \notin live)
    /\ nullRead' = (args.sr = NULL \/ args.si = NULL)
    /\ \/ /\ pc' = "npot_conv"
          /\ rd' = (IF args.sr = NULL THEN {}
                    ELSE {args.sr + i * args.srs : i \in 0..(args.n - 1)})
                   \cup (IF args.si = NULL THEN {}
                         ELSE {args.si + i * args.sis : i \in 0..(args.n - 1)})
       \/ /\ args.sr = NULL \/ args.si = NULL
          /\ pc' = "crashed"
          /\ rd' = IF args.sr = NULL THEN {} ELSE {args.sr}
    /\ UNCHANGED <<CallVars, mem, written, opaque, result, live, hmem, hbuf,
                   mallocs, frees, allocFailed, badFree>>

\* The three power-of-two transforms on a and b and the point-wise product:
\* heap accesses only.
NpotConvolve ==
    /\ pc = "npot_conv"
    /\ heapFault' = (heapFault \/ hmem \notin live)
    /\ pc' = "npot_post"
    /\ UNCHANGED <<CallVars, mem, written, rd, opaque, nullRead, result, live,
                   hmem, hbuf, mallocs, frees, allocFailed, badFree>>

\* The post-chirp loop: the only stores to the destination.
NpotPostChirp ==
    /\ pc = "npot_post"
    /\ heapFault' = (heapFault \/ hmem \notin live)
    /\ written' = written \cup DstSlots(args)
    /\ opaque' = opaque \cup DstSlots(args)
    /\ pc' = "npot_free"
    /\ UNCHANGED <<CallVars, mem, rd, nullRead, result, live, hmem, hbuf,
                   mallocs, frees, allocFailed, badFree>>

NpotFree ==
    /\ pc = "npot_free"
    /\ LET p == npot_free_arg(hmem, hbuf)
       IN /\ live' = live \ {p}
          /\ badFree' = (badFree \/ p \notin live)
    /\ frees' = frees + 1
    /\ pc' = "ret"
    /\ result' = <<0>>
    /\ UNCHANGED <<CallVars, mem, written, rd, opaque, nullRead, hmem, hbuf,
                   mallocs, allocFailed, heapFault>>

(***************************************************************************)
(* The specification.                                                      *)
(***************************************************************************)
NoArgs == dbc_fft_s_args(0, NULL, NULL, 0, 0, NULL, NULL, 0, 0, 0, 1)

\* The entry point has returned; the caller takes the result and is free to
\* refill its buffers and call again.  The static cache and the heap stay.
Return ==
    /\ pc = "ret"
    /\ pc' = "idle"
    /\ args' = NoArgs
    /\ entry' = "s"
    /\ mem' = InputMem
    /\ mem0' = InputMem
    /\ written' = {}
    /\ rd' = {}
    /\ opaque' = {}
    /\ nullRead' = FALSE
    /\ result' = <<>>
    /\ hmem' = NULL
    /\ hbuf' = NULL
    /\ mallocs' = 0
    /\ frees' = 0
    /\ allocFailed' = FALSE
    /\ badFree' = FALSE
    /\ heapFault' = FALSE
    /\ UNCHANGED <<live, cached>>

Init ==
    /\ pc = "idle"
    /\ args = NoArgs
    /\ entry = "s"
    /\ mem = InputMem
    /\ mem0 = InputMem
    /\ written = {}
    /\ rd = {}
    /\ opaque = {}
    /\ nullRead = FALSE
    /\ result = <<>>
    /\ live = {}
    /\ hmem = NULL
    /\ hbuf = NULL
    /\ mallocs = 0
    /\ frees = 0
    /\ allocFailed = FALSE
    /\ badFree = FALSE
    /\ heapFault = FALSE
    /\ cached = -1

Next ==
    \/ dbc_fft_s
    \/ dbc_fft_c
    \/ dbc_fft_i
    \/ PotBitreversal
    \/ PotButterfly
    \/ PotScale
    \/ NpotAlloc
    \/ NpotPreChirp
    \/ NpotConvolve
    \/ NpotPostChirp
    \/ NpotFree
    \/ Return

Spec == Init /\ [][Next]_vars

(***************************************************************************)
(* Vocabulary of the claims.                                               *)
(***************************************************************************)
PowerOfTwo(n) == \E k \in 0..MaxN : n = 2 ^ k

Slots(p, stride, n) == {p + k * stride : k \in 0..(n - 1)}

\* The logical input of the call: an absent channel is all zeros.
SrcRe(a, k) == IF a.sr = NULL THEN 0 ELSE mem0[a.sr + k * a.srs]
SrcIm(a, k) == IF a.si = NULL THEN 0 ELSE mem0[a.si + k * a.sis]

\* exp(-+2*pi*i*e/4) as <<re, im>> (forward: -, inverse: +).
Root4(e, inverse) ==
    LET q == e % 4
    IN CASE q = 0 -> <<1, 0>>
         [] q = 1 -> IF inverse = 0 THEN <<0, -1>> ELSE <<0, 1>>
         [] q = 2 -> <<-1, 0>>
         [] q = 3 -> IF inverse = 0 THEN <<0, 1>> ELSE <<0, -1>>

RECURSIVE DFTSum(_, _, _, _)
\* sum over k < upto of X[k]*exp(-+2*pi*i*j*k/n), for n in {1, 2, 4}.
DFTSum(a, j, upto, part) ==
    IF upto = 0 THEN 0
    ELSE LET k == upto - 1
             w == Root4(j * k * (4 \div a.n), a.inverse)
             term == IF part = "re"
                     THEN SrcRe(a, k) * w[1] - SrcIm(a, k) * w[2]
                     ELSE SrcRe(a, k) * w[2] + SrcIm(a, k) * w[1]
         IN term + DFTSum(a, j, k, part)

DFTRe(a, j) == a.scale * DFTSum(a, j, a.n, "re")
DFTIm(a, j) == a.scale * DFTSum(a, j, a.n, "im")

\* The destination channels do not overlap each other, and each source
\* channel is absent, disjoint from the destination, or exactly its own
\* destination channel with the same stride.
ValidLayout(a) ==
    /\ a.drs # 0 /\ a.dis # 0
    /\ Slots(a.dr, a.drs, a.n) \cap Slots(a.di, a.dis, a.n) = {}
    /\ \/ a.sr = NULL
       \/ Slots(a.sr, a.srs, a.n) \cap DstSlots(a) = {}
       \/ a.sr = a.dr /\ a.srs = a.drs
    /\ \/ a.si = NULL
       \/ Slots(a.si, a.sis, a.n) \cap DstSlots(a) = {}
       \/ a.si = a.di /\ a.sis = a.dis

\* The same transform with dense unit-stride source and destination.
DenseArgs(a) ==
    [a EXCEPT !.sr = IF a.sr = NULL THEN NULL ELSE S1, !.srs = 1,
              !.si = IF a.si = NULL THEN NULL ELSE S2, !.sis = 1,
              !.dr = D1, !.drs = 1, !.di = D2, !.dis = 1]

DenseMem(a) ==
    [x \in Addr |->
        IF x \in S1..(S1 + a.n - 1) THEN SrcRe(a, x - S1)
        ELSE IF x \in S2..(S2 + a.n - 1) THEN SrcIm(a, x - S2)
        ELSE 0]

DenseOut(a) == fft_pot([m |-> DenseMem(a), w |-> {}], DenseArgs(a)).m

\* A source channel at p and a destination channel at q share an element
\* although their base pointers differ.
Overlap(p, ps, q, qs, n) ==
    /\ p # NULL
    /\ p # q
    /\ Slots(p, ps, n) \cap Slots(q, qs, n) # {}

PartialOverlap(a) ==
    \/ Overlap(a.sr, a.srs, a.dr, a.drs, a.n)
    \/ Overlap(a.si, a.sis, a.di, a.dis, a.n)
    \/ Overlap(a.sr, a.srs, a.di, a.dis, a.n)
    \/ Overlap(a.si, a.sis, a.dr, a.drs, a.n)

\* The four alias conditions dbcF_fft is specified to reject.
ForbiddenAlias(a) ==
    \/ a.sr = a.dr /\ a.srs # a.drs
    \/ a.si = a.di /\ a.sis # a.dis
    \/ a.si = a.dr
    \/ a.sr = a.di

InCall == pc # "idle"

Rejected ==
    /\ pc = "ret"
    /\ result = <<DBCF_ERROR_INVALID_ARGUMENT>>
    /\ written = {}
    /\ mem = mem0

(***************************************************************************)
(* C1.  For every num_elements >= 1 a call to the strided entry point      *)
(* whose dst_real_stride or dst_imag_stride is 0 returns INVALID_ARGUMENT  *)
(* and writes no destination element.  The code has no such check.         *)
(***************************************************************************)
C1_ZeroDstStrideRejected ==
    (InCall /\ entry = "s" /\ args.n >= 1 /\ (args.drs = 0 \/ args.dis = 0))
        => Rejected

(***************************************************************************)
(* C2.  For a power-of-two n, nonzero destination strides and any scale,   *)
(* the values left at dst_real[k*dst_real_stride], dst_imag[k*             *)
(* dst_imag_stride] equal those the same transform leaves at index k of a  *)
(* dense unit-stride destination, which are scale times the DFT.  The      *)
(* scale loop of the code indexes the destination without the strides.     *)
(***************************************************************************)
C2_StrideEquivalence ==
    (pc = "ret" /\ result = <<0>> /\ PowerOfTwo(args.n) /\ ValidLayout(args))
        => \A k \in 0..(args.n - 1) :
              /\ mem[args.dr + k * args.drs] = DenseOut(args)[D1 + k]
              /\ mem[args.di + k * args.dis] = DenseOut(args)[D2 + k]
              /\ mem[args.dr + k * args.drs] = DFTRe(args, k)
              /\ mem[args.di + k * args.dis] = DFTIm(args, k)

(***************************************************************************)
(* C3.  A power-of-two transform with nonzero destination strides writes   *)
(* caller memory only at the 2n destination slots, and never writes a      *)
(* source array that is distinct from the destination.                     *)
(***************************************************************************)
C3_PotFrame ==
    (InCall /\ PowerOfTwo(args.n) /\ args.drs # 0 /\ args.dis # 0)
        => /\ written \subseteq DstSlots(args)
           /\ \A x \in Addr \ DstSlots(args) : mem[x] = mem0[x]
           /\ (args.sr # NULL
               /\ Slots(args.sr, args.srs, args.n) \cap DstSlots(args) = {})
                 => written \cap Slots(args.sr, args.srs, args.n) = {}
           /\ (args.si # NULL
               /\ Slots(args.si, args.sis, args.n) \cap DstSlots(args) = {})
                 => written \cap Slots(args.si, args.sis, args.n) = {}

(***************************************************************************)
(* C4.  For every num_elements >= 1, power of two or not, a call with a    *)
(* null source channel never reads through the null pointer and produces   *)
(* the transform of the input whose absent channel is all zeros.  The      *)
(* non-power-of-two driver loads src_real[i*stride] unconditionally.       *)
(***************************************************************************)
C4_NullSourceIsZero ==
    /\ ~nullRead
    /\ pc # "crashed"
    /\ (pc = "ret" /\ result = <<0>> /\ PowerOfTwo(args.n)
        /\ (args.sr = NULL \/ args.si = NULL) /\ ValidLayout(args))
          => \A k \in 0..(args.n - 1) :
                /\ mem[args.dr + k * args.drs] = DFTRe(args, k)
                /\ mem[args.di + k * args.dis] = DFTIm(args, k)

(***************************************************************************)
(* C5.  The interleaved entry points behave, for every src including       *)
(* NULL, like the strided entry point called with destination (dst, dst+1) *)
(* and destination strides (2, 2); with src == NULL and n >= 1 all 2n      *)
(* slots dst[0..2n-1] are written with zero.  The wrappers pass destination*)
(* strides (src?2:0).                                                      *)
(***************************************************************************)
C5_InterleavedAsStrided ==
    (InCall /\ entry = "i" /\ args.n >= 1)
        => /\ args.di = args.dr + 1
           /\ args.drs = 2
           /\ args.dis = 2
           /\ (pc = "ret" /\ args.sr = NULL)
                => /\ result = <<0>>
                   /\ \A j \in 0..(2 * args.n - 1) :
                         /\ args.dr + j \in written
                         /\ args.dr + j \notin opaque
                         /\ mem[args.dr + j] = 0

(***************************************************************************)
(* C6.  For num_elements >= 1 a call with src_real == dst_real and unequal *)
(* real strides, or src_imag == dst_imag and unequal imaginary strides, or *)
(* src_imag == dst_real, or src_real == dst_imag returns INVALID_ARGUMENT  *)
(* before any destination write and before any allocation; an exact        *)
(* in-place call (src_real == dst_real, src_imag == dst_imag, equal        *)
(* per-channel strides, distinct destination channels) is not rejected.    *)
(***************************************************************************)
C6_AliasRejection ==
    /\ (InCall /\ args.n >= 1 /\ ForbiddenAlias(args))
          => /\ Rejected
             /\ mallocs = 0
             /\ frees = 0
             /\ rd = {}
    /\ (InCall /\ args.n >= 1
        /\ args.sr = args.dr /\ args.si = args.di
        /\ args.srs = args.drs /\ args.sis = args.dis
        /\ args.dr # args.di)
          => result # <<DBCF_ERROR_INVALID_ARGUMENT>>

\* A call whose only forbidden alias is src_real == dst_imag has returned -1.
C6_Witness ==
    /\ pc = "ret"
    /\ args.n >= 1
    /\ args.sr = args.di
    /\ args.si # args.dr
    /\ ~(args.si = args.di /\ args.sis # args.dis)
    /\ result = <<DBCF_ERROR_INVALID_ARGUMENT>>
    /\ written = {}

(***************************************************************************)
(* C7.  For num_elements >= 2 a call whose source and destination index    *)
(* ranges overlap partially (they share an element but the base pointers   *)
(* differ) is rejected with INVALID_ARGUMENT and writes no destination     *)
(* element.  The code compares base pointers only.                         *)
(***************************************************************************)
C7_PartialOverlapRejected ==
    (InCall /\ args.n >= 2 /\ PartialOverlap(args)) => Rejected

(***************************************************************************)
(* C8.  For every num_elements < 1 the entry point returns 0 whatever the  *)
(* other arguments are, writes nothing and calls neither the allocator nor *)
(* the deallocator: the size check precedes every other validation step.   *)
(***************************************************************************)
C8_SizeNoOp ==
    (InCall /\ args.n < 1)
        => /\ pc = "ret"
           /\ result = <<0>>
           /\ written = {}
           /\ rd = {}
           /\ mem = mem0
           /\ mallocs = 0
           /\ frees = 0

\* A call with a non-positive size, null destinations, zero destination
\* strides and a forbidden alias has returned 0.
C8_Witness ==
    /\ pc = "ret"
    /\ args.n < 1
    /\ args.dr = NULL
    /\ args.drs = 0
    /\ ForbiddenAlias(args)
    /\ result = <<0>>

(***************************************************************************)
(* C9.  For a non-power-of-two n, if the allocator returns null the entry  *)
(* point returns OUT_OF_MEMORY, no destination element has been written,   *)
(* no source element has been read and the deallocator is not called;      *)
(* OUT_OF_MEMORY is never returned for a power-of-two n.                   *)
(***************************************************************************)
C9_OutOfMemory ==
    /\ allocFailed
          => /\ pc = "ret"
             /\ result = <<DBCF_ERROR_OUT_OF_MEMORY>>
             /\ written = {}
             /\ mem = mem0
             /\ rd = {}
             /\ ~nullRead
             /\ frees = 0
    /\ result = <<DBCF_ERROR_OUT_OF_MEMORY>>
          => /\ allocFailed
             /\ args.n >= 1
             /\ ~PowerOfTwo(args.n)

\* A call of size 3 whose allocation failed has returned -2.
C9_Witness ==
    /\ pc = "ret"
    /\ args.n = 3
    /\ allocFailed
    /\ mallocs = 1
    /\ result = <<DBCF_ERROR_OUT_OF_MEMORY>>

(***************************************************************************)
(* C10.  A power-of-two transform never calls the allocator; a             *)
(* non-power-of-two transform calls dbcf_malloc exactly once and, when it  *)
(* succeeds, calls dbcf_free exactly once on the pointer malloc returned,  *)
(* after its last access to the buffer and before returning; between calls *)
(* the number of live allocations is zero.                                 *)
(***************************************************************************)
C10_HeapDiscipline ==
    /\ PowerOfTwo(args.n) => (mallocs = 0 /\ frees = 0)
    /\ mallocs <= 1
    /\ frees <= mallocs
    /\ ~badFree
    /\ ~heapFault
    /\ (pc = "ret" /\ args.n >= 1 /\ ~PowerOfTwo(args.n)
        /\ result # <<DBCF_ERROR_INVALID_ARGUMENT>>)
          => /\ mallocs = 1
             /\ frees = IF allocFailed THEN 0 ELSE 1
    /\ pc \in {"npot_pre", "npot_conv", "npot_post", "npot_free"}
          => (live = {hmem} /\ frees = 0)
    /\ pc \in {"idle", "ret"} => live = {}

\* A call of size 3 has returned after freeing the unaligned pointer malloc
\* gave it, although it worked on the aligned address buf.
C10_Witness ==
    /\ pc = "ret"
    /\ args.n = 3
    /\ result = <<0>>
    /\ mallocs = 1
    /\ frees = 1
    /\ hmem # NULL
    /\ hbuf # hmem
    /\ live = {}

(***************************************************************************)
(* Internal functions called on their own.  The specifications below call  *)
(* one internal function of the library directly: pc is the position       *)
(* inside it, args holds its arguments, mem the memory it works on and     *)
(* result what it returns.  The variables a function does not touch keep   *)
(* the values RestInit gives them.                                         *)
(***************************************************************************)
RestVars == <<entry, mem0, written, rd, opaque, nullRead, live, hmem, hbuf,
              mallocs, frees, allocFailed, badFree, heapFault, cached>>

RestInit ==
    /\ entry = "s"
    /\ mem0 = InputMem
    /\ written = {}
    /\ rd = {}
    /\ opaque = {}
    /\ nullRead = FALSE
    /\ live = {}
    /\ hmem = NULL
    /\ hbuf = NULL
    /\ mallocs = 0
    /\ frees = 0
    /\ allocFailed = FALSE
    /\ badFree = FALSE
    /\ heapFault = FALSE
    /\ cached = -1

(***************************************************************************)
(* The size dbcF_fft_npot asks dbcf_malloc for.                            *)
(***************************************************************************)
\* Largest num_elements of the allocation requests examined.
MaxAllocN == 24

\* sizeof(DBCF_Type) for float, double and long double.
ElemSizes == {4, 8, 16}
\* alignment with and without DBCF_butterfly_multipass_optimized.
Alignments == {0, alignment}

\* A request with four further m-element arrays.
npot_alloc_size_6m(n, size, align) ==
    (6 * DBCF_POW2(npot_log2m(n, 0)) + 4 * n) * size + align

\* (4*m+4*n)*(dbcf_index)sizeof(DBCF_Type)+alignment
npot_alloc_size(n, size, align) ==
    (4 * DBCF_POW2(npot_log2m(n, 0)) + 4 * n) * size + align

InitAlloc ==
    /\ pc = "npot"
    /\ \E n \in 3..MaxAllocN, size \in ElemSizes, align \in Alignments :
          /\ BitAnd(n, n - 1) # 0
          /\ args = [n |-> n, size |-> size, align |-> align]
    /\ mem = InputMem
    /\ result = <<>>
    /\ RestInit

NpotRequest ==
    /\ pc = "npot"
    /\ result' = <<npot_alloc_size(args.n, args.size, args.align)>>
    /\ pc' = "requested"
    /\ UNCHANGED <<args, mem, RestVars>>

NextAlloc == NpotRequest

SpecAlloc == InitAlloc /\ [][NextAlloc]_vars

(***************************************************************************)
(* C11.  For every non-power-of-two n >= 3, element size in {4, 8, 16} and *)
(* alignment pad in {0, 64}, the size requested from the allocator,        *)
(* (4m + 4n)*size + pad with m the smallest power of two >= 2n-1, is at    *)
(* most 10 times the size of the output, 2n*size bytes.                    *)
(***************************************************************************)
C11_AllocAtMostTenTimes ==
    pc = "requested"
        => /\ result[1] <= 10 * (2 * args.n * args.size)
           /\ \E k \in 0..MaxAllocN :
                 /\ 2 ^ k >= 2 * args.n - 1
                 /\ k > 0 => 2 ^ (k - 1) < 2 * args.n - 1
                 /\ result[1] = (4 * 2 ^ k + 4 * args.n) * args.size + args.align

\* The request for n = 3 floats with the alignment pad is exactly ten times
\* the output size: 240 bytes.
C11_Witness ==
    /\ pc = "requested"
    /\ args.n = 3
    /\ args.size = 4
    /\ args.align = 64
    /\ result = <<240>>

(***************************************************************************)
(* The contiguous entry points dbc_fft_c and dbc_ifft_c on chosen inputs,  *)
(* followed by the opposite transform of the result.  The state is the one *)
(* dbcF_fft is in after its validation chain, at the call of dbcF_fft_pot. *)
(***************************************************************************)
\* Largest value of a real or imaginary part of an input element.
MaxVal == 1

PotSizes == {1, 2, 4, 8}

\* The input X = [1, 2, 3, 4] of the worked example.
ExampleInput == [k \in 0..7 |-> IF k < 4 THEN k + 1 ELSE 0]

\* Inputs of n complex elements: X[k] is the real part of element k and
\* X[n+k] its imaginary part.  Size 8 is given impulses only.
PotInputs(n) ==
    IF n = 8
    THEN {[k \in 0..15 |-> IF k = 0 THEN A ELSE 0] : A \in 1..(MaxVal + 1)}
    ELSE [0..(2 * n - 1) -> 0..MaxVal]
         \cup (IF n = 4 THEN {ExampleInput} ELSE {})

\* Caller memory holding X in the source arrays at re and im.
PotMem(n, X, re, im) ==
    [x \in Addr |->
        IF x \in re..(re + n - 1) THEN X[x - re]
        ELSE IF x \in im..(im + n - 1) THEN X[n + (x - im)]
        ELSE InputMem[x]]

InitPot ==
    /\ pc = "pot"
    /\ entry = "c"
    /\ \E n \in PotSizes, inverse \in {0, 1}, inplace \in BOOLEAN :
          \E X \in PotInputs(n) :
             LET re == IF inplace THEN D1 ELSE S1
                 im == IF inplace THEN D2 ELSE S2
                 a == dbc_fft_c_args(n, re, im, D1, D2, inverse, 1)
             IN /\ CallOK(a)
                /\ dbcF_fft_validate(a) = "pot"
                /\ args = a
                /\ mem = PotMem(n, X, re, im)
                /\ mem0 = PotMem(n, X, re, im)
    /\ written = {}
    /\ rd = {}
    /\ opaque = {}
    /\ nullRead = FALSE
    /\ result = <<>>
    /\ live = {}
    /\ hmem = NULL
    /\ hbuf = NULL
    /\ mallocs = 0
    /\ frees = 0
    /\ allocFailed = FALSE
    /\ badFree = FALSE
    /\ heapFault = FALSE
    /\ cached \in SimdMasks

\* The caller passes the result to the opposite transform, which writes the
\* arrays the input came from.  mem0 keeps the input of the first call.
RoundTrip ==
    /\ pc = "ret"
    /\ entry = "c"
    /\ result = <<0>>
    /\ LET a == dbc_fft_c_args(args.n, args.dr, args.di, args.sr, args.si,
                               1 - args.inverse, args.scale)
       IN /\ CallOK(a)
          /\ dbcF_fft_validate(a) = "pot"
          /\ args' = a
    /\ entry' = "cc"
    /\ pc' = "pot"
    /\ result' = <<>>
    /\ written' = {}
    /\ rd' = {}
    /\ UNCHANGED <<mem, mem0, opaque, nullRead, HeapVars, cached>>

NextPot ==
    \/ PotBitreversal
    \/ PotButterfly
    \/ PotScale
    \/ RoundTrip

SpecPot == InitPot /\ [][NextPot]_vars

C13_RoundTrip ==
    (pc = "ret" /\ entry = "cc" /\ args.n \in {1, 2, 4})
        => /\ result = <<0>>
           /\ \A k \in 0..(args.n - 1) :
                 /\ mem[args.dr + k] = args.n * mem0[args.dr + k]
                 /\ mem[args.di + k] = args.n * mem0[args.di + k]

\* Forward then inverse on [1,2,3,4] has returned [4,8,12,16].
C13_Witness ==
    /\ pc = "ret"
    /\ entry = "cc"
    /\ args.n = 4
    /\ args.inverse = 1
    /\ \A k \in 0..3 : mem0[args.dr + k] = k + 1 /\ mem[args.dr + k] = 4 * (k + 1)

(***************************************************************************)
(* C14.  A transform run in place (src_real == dst_real, src_imag ==       *)
(* dst_imag, equal nonzero strides, destination channels disjoint) leaves  *)
(* in the destination slots the values the same transform leaves there     *)
(* when run out of place from a separate copy of X: for a power-of-two n   *)
(* the destination after the bit-reversal step is the same in the two runs *)
(* and so is the final result; a non-power-of-two transform has loaded     *)
(* every source element before it stores the first destination element.    *)
(***************************************************************************)
InPlace(a) ==
    /\ a.n >= 1
    /\ a.sr = a.dr /\ a.srs = a.drs
    /\ a.si = a.di /\ a.sis = a.dis
    /\ ValidLayout(a)

\* The same call reading from a separate copy of the input.
OutOfPlaceArgs(a) ==
    [a EXCEPT !.sr = Base(S1, a.srs, a.n), !.si = Base(S2, a.sis, a.n)]

\* Memory of the out-of-place run: X copied to the separate source arrays,
\* the destination slots cleared, every other cell as in the in-place run.
OutOfPlaceMem(a) ==
    LET b == OutOfPlaceArgs(a)
    IN [x \in Addr |->
          IF \E k \in 0..(a.n - 1) : x = b.sr + k * b.srs
          THEN mem0[a.dr + ((x - b.sr) \div b.srs) * a.drs]
          ELSE IF \E k \in 0..(a.n - 1) : x = b.si + k * b.sis
          THEN mem0[a.di + ((x - b.si) \div b.sis) * a.dis]
          ELSE IF x \in DstSlots(a) THEN 0
          ELSE mem0[x]]

OutOfPlaceStart(a) == [m |-> OutOfPlaceMem(a), w |-> {}]

C14_InPlaceEquivalence ==
    (InCall /\ InPlace(args))
        => /\ (pc = "pot_butterfly")
                => \A x \in DstSlots(args) :
                      mem[x] = fft_pot_bitreversal(OutOfPlaceStart(args),
                                                   OutOfPlaceArgs(args)).m[x]
           /\ (pc = "ret" /\ PowerOfTwo(args.n))
                => /\ result = <<0>>
                   /\ \A x \in DstSlots(args) :
                         mem[x] = fft_pot(OutOfPlaceStart(args),
                                          OutOfPlaceArgs(args)).m[x]
           /\ ~PowerOfTwo(args.n)
                => /\ written # {} => pc \in {"npot_free", "ret"}
                   /\ pc \in {"npot_conv", "npot_post", "npot_free"}
                         => (rd = DstSlots(args) /\ ~nullRead)

\* An in-place interleaved transform of size 4 with scale 2 has returned.
C14_Witness ==
    /\ pc = "ret"
    /\ InPlace(args)
    /\ args.n = 4
    /\ args.di = args.dr + 1
    /\ args.drs = 2
    /\ args.scale = 2
    /\ result = <<0>>
    /\ mem # mem0

(***************************************************************************)
(* C15.  With SIMD detection caching enabled, over any sequence of calls   *)
(* of which each has completed before the next starts, the cached SIMD     *)
(* mask is written at most once: the first call (even one with             *)
(* num_elements = 0 or one that is rejected) stores it and no later step   *)
(* changes it.                                                             *)
(***************************************************************************)
C15_CacheWriteOnce ==
    [][/\ cached # -1 => cached' = cached
       /\ (pc = "idle" /\ pc' # "idle") => cached' # -1
       /\ pc # "idle" => cached' = cached]_vars

\* A rejected call has returned and the mask is stored.
C15_Witness ==
    /\ pc = "ret"
    /\ result = <<DBCF_ERROR_INVALID_ARGUMENT>>
    /\ cached = 3

(***************************************************************************)
(* Two threads, each inside one call of dbc_fft_c or dbc_ifft_c, on one    *)
(* address space.  pc, args, entry, written, rd, result, hmem and hbuf     *)
(* hold one value per thread; mem, opaque, live and cached are shared, and *)
(* so are the fault flags and the counters.  Thread 1 is given the regions *)
(* S1 and D1, thread 2 the regions S2 and D2; each keeps the real parts in *)
(* the lower and the imaginary parts in the upper half of a region.  The   *)
(* arrays dummy[2] and tmp[] of dbcF_fft_pot are automatic: a step leaves  *)
(* the cells of another thread's frame alone.  dbcf_detect_simd has stored *)
(* its mask before either call started.  The steps of the two threads      *)
(* interleave freely.                                                      *)
(***************************************************************************)
Threads == {1, 2}

ThreadSrc(t) == IF t = 1 THEN S1 ELSE S2

ThreadDst(t) == IF t = 1 THEN D1 ELSE D2

\* The caller memory thread t passes pointers into.
ThreadOwns(t) ==
    ThreadSrc(t)..(ThreadSrc(t) + RegionLen - 1)
    \cup ThreadDst(t)..(ThreadDst(t) + RegionLen - 1)

\* The calls thread t makes: separate source, in place, or (power-of-two
\* sizes) no source.  Thread 1 calls dbc_fft_c, thread 2 dbc_ifft_c.
ThreadCalls(t) ==
    {a \in {dbc_fft_c_args(n, sr, IF sr = NULL THEN NULL ELSE sr + MaxN,
                           ThreadDst(t), ThreadDst(t) + MaxN, t - 1, scale) :
               n \in 1..MaxN, sr \in {NULL, ThreadSrc(t), ThreadDst(t)},
               scale \in Scales} :
        /\ CallOK(a)
        /\ \/ dbcF_fft_validate(a) = "pot"
           \/ dbcF_fft_validate(a) = "npot" /\ a.sr # NULL}

\* dbcf_malloc hands out any block, in use or not.
dbcf_malloc_any(live_) == {NULL} \cup HeapPtrs

\* The values a thread-safe dbcf_malloc can return: null or a block that is
\* not in use.
dbcf_malloc(live_) == {NULL} \cup (HeapPtrs \ live_)

\* The cells of S outside the frame of the stepping thread; the frame cells
\* dummy[0], dummy[1] of the other threads keep their value.
ThreadMem(S) ==
    [x \in Addr |-> IF x \in {dummy, dummy + 1} THEN mem[x] ELSE S.m[x]]

InitConc ==
    /\ args \in [Threads -> UNION {ThreadCalls(t) : t \in Threads}]
    /\ \A t \in Threads : args[t] \in ThreadCalls(t)
    /\ pc = [t \in Threads |-> dbcF_fft_validate(args[t])]
    /\ entry = [t \in Threads |-> "c"]
    /\ mem = InputMem
    /\ mem0 = InputMem
    /\ written = [t \in Threads |-> {}]
    /\ rd = [t \in Threads |-> {}]
    /\ opaque = {}
    /\ nullRead = FALSE
    /\ result = [t \in Threads |-> <<>>]
    /\ live = {}
    /\ hmem = [t \in Threads |-> NULL]
    /\ hbuf = [t \in Threads |-> NULL]
    /\ mallocs = 0
    /\ frees = 0
    /\ allocFailed = FALSE
    /\ badFree = FALSE
    /\ heapFault = FALSE
    /\ cached \in SimdMasks

ConcPotBitreversal(t) ==
    /\ pc[t] = "pot"
    /\ LET S == fft_pot_bitreversal([m |-> mem, w |-> written[t]], args[t])
       IN /\ mem' = ThreadMem(S)
          /\ written' = [written EXCEPT ![t] = S.w]
    /\ rd' = [rd EXCEPT ![t] =
                 fft_pot_reads(args[t].sr, args[t].srs, args[t].dr,
                               args[t].n, args[t].sr = NULL)
                 \cup fft_pot_reads(args[t].si, args[t].sis, args[t].di,
                                    args[t].n, args[t].si = NULL)]
    /\ pc' = [pc EXCEPT ![t] = "pot_butterfly"]
    /\ UNCHANGED <<CallVars, HeapVars, opaque, nullRead, result>>

ConcPotButterfly(t) ==
    /\ pc[t] = "pot_butterfly"
    /\ LET S == fft_pot_butterfly([m |-> mem, w |-> written[t]], args[t])
       IN /\ mem' = ThreadMem(S)
          /\ written' = [written EXCEPT ![t] = S.w]
    /\ pc' = [pc EXCEPT ![t] = "pot_scale"]
    /\ UNCHANGED <<CallVars, HeapVars, rd, opaque, nullRead, result>>

ConcPotScale(t) ==
    /\ pc[t] = "pot_scale"
    /\ LET S == fft_pot_scale([m |-> mem, w |-> written[t]], args[t])
       IN /\ mem' = ThreadMem(S)
          /\ written' = [written EXCEPT ![t] = S.w]
    /\ pc' = [pc EXCEPT ![t] = "ret"]
    /\ result' = [result EXCEPT ![t] = <<0>>]
    /\ UNCHANGED <<CallVars, HeapVars, rd, opaque, nullRead>>

ConcNpotAlloc(t) ==
    /\ pc[t] = "npot"
    /\ \E p \in dbcf_malloc(live) :
          /\ hmem' = [hmem EXCEPT ![t] = p]
          /\ hbuf' = [hbuf EXCEPT ![t] = npot_buf(p)]
          /\ live' = IF p = NULL THEN live ELSE live \cup {p}
          /\ allocFailed' = (allocFailed \/ p = NULL)
          /\ IF npot_malloc_failed(p)
             THEN /\ pc' = [pc EXCEPT ![t] = "ret"]
                  /\ result' = [result EXCEPT ![t] = <<DBCF_ERROR_OUT_OF_MEMORY>>]
             ELSE /\ pc' = [pc EXCEPT ![t] = "npot_pre"]
                  /\ UNCHANGED result
    /\ mallocs' = mallocs + 1
    /\ UNCHANGED <<CallVars, mem, written, rd, opaque, nullRead, frees,
                   badFree, heapFault>>

ConcNpotPreChirp(t) ==
    /\ pc[t] = "npot_pre"
    /\ heapFault' = (heapFault \/ hmem[t] \notin live)
    /\ rd' = [rd EXCEPT ![t] =
                 {args[t].sr + i * args[t].srs : i \in 0..(args[t].n - 1)}
                 \cup {args[t].si + i * args[t].sis : i \in 0..(args[t].n - 1)}]
    /\ pc' = [pc EXCEPT ![t] = "npot_conv"]
    /\ UNCHANGED <<CallVars, mem, written, opaque, nullRead, result, live,
                   hmem, hbuf, mallocs, frees, allocFailed, badFree>>

ConcNpotConvolve(t) ==
    /\ pc[t] = "npot_conv"
    /\ heapFault' = (heapFault \/ hmem[t] \notin live)
    /\ pc' = [pc EXCEPT ![t] = "npot_post"]
    /\ UNCHANGED <<CallVars, mem, written, rd, opaque, nullRead, result, live,
                   hmem, hbuf, mallocs, frees, allocFailed, badFree>>

ConcNpotPostChirp(t) ==
    /\ pc[t] = "npot_post"
    /\ heapFault' = (heapFault \/ hmem[t] \notin live)
    /\ written' = [written EXCEPT ![t] = @ \cup DstSlots(args[t])]
    /\ opaque' = opaque \cup DstSlots(args[t])
    /\ pc' = [pc EXCEPT ![t] = "npot_free"]
    /\ UNCHANGED <<CallVars, mem, rd, nullRead, result, live, hmem, hbuf,
                   mallocs, frees, allocFailed, badFree>>

ConcNpotFree(t) ==
    /\ pc[t] = "npot_free"
    /\ LET p == npot_free_arg(hmem[t], hbuf[t])
       IN /\ live' = live \ {p}
          /\ badFree' = (badFree \/ p \notin live)
    /\ frees' = frees + 1
    /\ pc' = [pc EXCEPT ![t] = "ret"]
    /\ result' = [result EXCEPT ![t] = <<0>>]
    /\ UNCHANGED <<CallVars, mem, written, rd, opaque, nullRead, hmem, hbuf,
                   mallocs, allocFailed, heapFault>>

NextConc ==
    \/ \E t \in Threads : ConcPotBitreversal(t)
    \/ \E t \in Threads : ConcPotButterfly(t)
    \/ \E t \in Threads : ConcPotScale(t)
    \/ \E t \in Threads : ConcNpotAlloc(t)
    \/ \E t \in Threads : ConcNpotPreChirp(t)
    \/ \E t \in Threads : ConcNpotConvolve(t)
    \/ \E t \in Threads : ConcNpotPostChirp(t)
    \/ \E t \in Threads : ConcNpotFree(t)

SpecConc == InitConc /\ [][NextConc]_vars

\* Thread t holds a heap block: between its dbcf_malloc and its dbcf_free.
HoldsBlock(t) == pc[t] \in {"npot_pre", "npot_conv", "npot_post", "npot_free"}

\* What the call of thread t leaves when it runs with no other thread: the
\* stores made and the value of every cell the thread owns.
AloneRun(t) ==
    IF dbcF_fft_validate(args[t]) = "pot"
    THEN fft_pot([m |-> mem0, w |-> {}], args[t])
    ELSE [m |-> mem0,
          w |-> IF result[t] = <<0>> THEN DstSlots(args[t]) ELSE {}]

RECURSIVE BitXor(_, _)
\* x ^ y for x, y >= 0.
BitXor(x, y) ==
    IF x = 0 THEN y
    ELSE IF y = 0 THEN x
    ELSE 2 * BitXor(x \div 2, y \div 2) + (IF x % 2 = y % 2 THEN 0 ELSE 1)

\* x << k
Shl(x, k) == x * DBCF_POW2(k)

\* x >> k
Shr(x, k) == x \div DBCF_POW2(k)

RECURSIVE dbcF_bitreverse_unshifted(_, _)
\* The table build without the shift of the reversed low byte.
dbcF_bitreverse_unshifted(i, bits) ==
    IF bits <= 8 THEN dbcF_bitreverse_table(bits, i)
    ELSE BitXor(dbcF_bitreverse_table(8, BitAnd(i, 255)),
                dbcF_bitreverse_unshifted(Shr(i, 8), bits - 8))

RECURSIVE dbcF_bitreverse(_, _)
\* if(bits<=8) return (dbcF_bitreverse_table+DBCF_POW2(bits))[i];
\* return ((table+256)[i&255]<<(bits-8))^dbcF_bitreverse(i>>8,bits-8);
dbcF_bitreverse(i, bits) ==
    IF bits <= 8 THEN dbcF_bitreverse_table(bits, i)
    ELSE BitXor(Shl(dbcF_bitreverse_table(8, BitAnd(i, 255)), bits - 8),
                dbcF_bitreverse(Shr(i, 8), bits - 8))

RECURSIVE dbcF_bitreverse_notable(_, _)
\* The body under DBC_FFT_NO_BITREVERSE_TABLE: swap nibbles, bit pairs and
\* bits of the low byte, drop the 8-b low bits, recurse on the rest.
dbcF_bitreverse_notable(i, bits) ==
    LET j0 == BitAnd(i, 255)
        b  == IF bits < 8 THEN bits ELSE 8
        j1 == BitXor(Shr(j0, 4), Shl(j0, 4))
        j2 == BitXor(Shr(BitAnd(j1, 204), 2), Shl(BitAnd(j1, 51), 2))
        j3 == BitXor(Shr(BitAnd(j2, 170), 1), Shl(BitAnd(j2, 85), 1))
        j4 == Shr(j3, 8 - b)
    IN IF bits > 8
       THEN BitXor(Shl(j4, bits - 8), dbcF_bitreverse_notable(Shr(i, 8), bits - 8))
       ELSE j4

\* Largest bit count given to dbcF_bitreverse.
MaxBits == 10

\* A call dbcF_bitreverse(i, bits) with 0 <= i < 2^bits in either build.
InitBitrev ==
    /\ pc = "bitreverse"
    /\ \E bits \in 0..MaxBits, table \in BOOLEAN :
          \E i \in 0..(DBCF_POW2(bits) - 1) :
             args = [i |-> i, bits |-> bits, table |-> table]
    /\ mem = InputMem
    /\ result = <<>>
    /\ RestInit

BitreverseTable ==
    /\ pc = "bitreverse"
    /\ args.table
    /\ result' = <<dbcF_bitreverse(args.i, args.bits)>>
    /\ pc' = "reversed"
    /\ UNCHANGED <<args, mem, RestVars>>

BitreverseNoTable ==
    /\ pc = "bitreverse"
    /\ ~args.table
    /\ result' = <<dbcF_bitreverse_notable(args.i, args.bits)>>
    /\ pc' = "reversed"
    /\ UNCHANGED <<args, mem, RestVars>>

\* The caller reverses the value it got, with the same bit count.
BitreverseAgain ==
    /\ pc = "reversed"
    /\ result' = <<result[1],
                   IF args.table THEN dbcF_bitreverse(result[1], args.bits)
                   ELSE dbcF_bitreverse_notable(result[1], args.bits)>>
    /\ pc' = "reversed_twice"
    /\ UNCHANGED <<args, mem, RestVars>>

NextBitrev ==
    \/ BitreverseTable
    \/ BitreverseNoTable
    \/ BitreverseAgain

SpecBitrev == InitBitrev /\ [][NextBitrev]_vars

RECURSIVE ReverseBits(_, _)
\* The number whose b-bit binary representation is that of i read backwards.
ReverseBits(i, b) ==
    IF b = 0 THEN 0
    ELSE (i % 2) * 2 ^ (b - 1) + ReverseBits(i \div 2, b - 1)

(***************************************************************************)
(* C17.  For every bit count b >= 0 and index 0 <= i < 2^b,                *)
(* dbcF_bitreverse(i, b) is the b-bit reversal of i; the table build and   *)
(* the build without the table return the same value; and reversing the    *)
(* returned value again gives i back.                                      *)
(***************************************************************************)
C17_Bitreverse ==
    /\ pc \in {"reversed", "reversed_twice"} =>
          /\ result[1] = ReverseBits(args.i, args.bits)
          /\ result[1] = dbcF_bitreverse(args.i, args.bits)
          /\ result[1] = dbcF_bitreverse_notable(args.i, args.bits)
    /\ pc = "reversed_twice" => result[2] = args.i

\* A 10-bit index went through the table build twice: the 8-bit table
\* lookup and the recursion on the two high bits were both taken.
C17_Witness ==
    /\ pc = "reversed_twice"
    /\ args = [i |-> 1, bits |-> 10, table |-> TRUE]
    /\ result = <<512, 1>>

(***************************************************************************)
(* dbcF_bitreversal_permutation and dbcF_bitreversal_swap in all regimes.  *)
(* A build B gives the compile-time numbers the regimes depend on:         *)
(* B.tmp is DBCF_TMP_BUF_LOG2, B.Q is DBCF_Q, B.direct is the largest      *)
(* log2n handled by the direct loops (8 in the source) and B.recursive the *)
(* largest log2n handled by the recursive regimes (16 in the source).      *)
(* CodeBuild is the default build.  In it the tiled in-place regime and    *)
(* the split out-of-place regime start at 2^17 elements; the small builds  *)
(* keep the code of every regime and lower B.direct and B.recursive so     *)
(* that each regime runs on arrays of a size that can be enumerated.       *)
(* A memory state of this section has two more fields: tmp, the scratch    *)
(* buffer of 2^B.tmp elements, and ix, the set of indices tmp was accessed *)
(* with.                                                                   *)
(***************************************************************************)
\* #define DBCF_Q (((DBCF_TMP_BUF_LOG2)>>1)<6?((DBCF_TMP_BUF_LOG2)>>1):6)
DBCF_Q ==
    IF Shr(DBCF_TMP_BUF_LOG2, 1) < 6 THEN Shr(DBCF_TMP_BUF_LOG2, 1) ELSE 6

CodeBuild ==
    [tmp |-> DBCF_TMP_BUF_LOG2, Q |-> DBCF_Q, direct |-> 8, recursive |-> 16]

\* -DDBCF_TMP_BUF_LOG2=4 (so DBCF_Q is 2) with the regime limits 2 and 4,
\* and -DDBCF_TMP_BUF_LOG2=2 (so DBCF_Q is 1) with the regime limits 1 and 2.
SmallBuilds ==
    {[tmp |-> 4, Q |-> 2, direct |-> 2, recursive |-> 4],
     [tmp |-> 2, Q |-> 1, direct |-> 1, recursive |-> 2]}

\* The value of a tmp element that was never stored.
Indeterminate == -1

TmpLoad(S, i) == IF i \in DOMAIN S.tmp THEN S.tmp[i] ELSE Indeterminate

\* The state after tmp[i] was read.
TmpTouch(S, i) == [S EXCEPT !.ix = S.ix \cup {i}]

TmpStore(S, i, v) ==
    [S EXCEPT !.tmp = IF i \in DOMAIN S.tmp THEN [S.tmp EXCEPT ![i] = v]
                      ELSE S.tmp,
              !.ix = S.ix \cup {i}]

\* A loop `for(i=lo;i<hi;++i) step' is written in two halves, the first
\* carried out in full (Done) before the second starts from its result.
Done(R) == DOMAIN R = DOMAIN R

\* dst[i*dst_stride]=x;
broadcast_step(S, i, x, dst, dst_stride) == Store(S, dst + i * dst_stride, x)

RECURSIVE broadcast_loop(_, _, _, _, _, _)
broadcast_loop(S, lo, hi, x, dst, dst_stride) ==
    IF hi <= lo THEN S
    ELSE IF hi = lo + 1 THEN broadcast_step(S, lo, x, dst, dst_stride)
    ELSE LET mid == (lo + hi) \div 2
             R == broadcast_loop(S, lo, mid, x, dst, dst_stride)
         IN IF Done(R) THEN broadcast_loop(R, mid, hi, x, dst, dst_stride) ELSE R

\* j=idx[i]; if(i<j) {x=dst[i*s]; y=dst[j*s]; dst[i*s]=y; dst[j*s]=x;}
inplace_step(S, i, log2n, dst, dst_stride) ==
    LET j == dbcF_bitreverse_table(log2n, i)
        x == Load(S, dst + i * dst_stride)
        y == Load(S, dst + j * dst_stride)
        Sa == Store(S, dst + i * dst_stride, y)
        Sb == Store(Sa, dst + j * dst_stride, x)
    IN IF i < j THEN Sb ELSE S

RECURSIVE inplace_loop(_, _, _, _, _, _)
inplace_loop(S, lo, hi, log2n, dst, dst_stride) ==
    IF hi <= lo THEN S
    ELSE IF hi = lo + 1 THEN inplace_step(S, lo, log2n, dst, dst_stride)
    ELSE LET mid == (lo + hi) \div 2
             R == inplace_loop(S, lo, mid, log2n, dst, dst_stride)
         IN IF Done(R) THEN inplace_loop(R, mid, hi, log2n, dst, dst_stride) ELSE R

\* j=idx[i]; dst[j*dst_stride]=src[i*src_stride];
scatter_step(S, i, log2n, src, src_stride, dst, dst_stride) ==
    Store(S, dst + dbcF_bitreverse_table(log2n, i) * dst_stride,
          Load(S, src + i * src_stride))

RECURSIVE scatter_loop(_, _, _, _, _, _, _, _)
scatter_loop(S, lo, hi, log2n, src, src_stride, dst, dst_stride) ==
    IF hi <= lo THEN S
    ELSE IF hi = lo + 1 THEN scatter_step(S, lo, log2n, src, src_stride, dst, dst_stride)
    ELSE LET mid == (lo + hi) \div 2
             R == scatter_loop(S, lo, mid, log2n, src, src_stride, dst, dst_stride)
         IN IF Done(R) THEN scatter_loop(R, mid, hi, log2n, src, src_stride, dst, dst_stride) ELSE R

\* x=src[i*src_stride]; y=dst[j*dst_stride]; src[...]=y; dst[...]=x;
swap_step(S, i, log2n, src, src_stride, dst, dst_stride) ==
    LET j == dbcF_bitreverse_table(log2n, i)
        x == Load(S, src + i * src_stride)
        y == Load(S, dst + j * dst_stride)
        Sa == Store(S, src + i * src_stride, y)
    IN Store(Sa, dst + j * dst_stride, x)

RECURSIVE swap_loop(_, _, _, _, _, _, _, _)
swap_loop(S, lo, hi, log2n, src, src_stride, dst, dst_stride) ==
    IF hi <= lo THEN S
    ELSE IF hi = lo + 1 THEN swap_step(S, lo, log2n, src, src_stride, dst, dst_stride)
    ELSE LET mid == (lo + hi) \div 2
             R == swap_loop(S, lo, mid, log2n, src, src_stride, dst, dst_stride)
         IN IF Done(R) THEN swap_loop(R, mid, hi, log2n, src, src_stride, dst, dst_stride) ELSE R

RECURSIVE dbcF_bitreversal_swap(_, _, _, _, _, _, _)
dbcF_bitreversal_swap(B, S, log2n, src, src_stride, dst, dst_stride) ==
    LET h == Shr(DBCF_POW2(log2n), 1)
        R == dbcF_bitreversal_swap(B, S, log2n - 1, src, 2 * src_stride,
                                   dst, dst_stride)
    IN IF log2n <= B.direct
       THEN swap_loop(S, 0, DBCF_POW2(log2n), log2n, src, src_stride,
                      dst, dst_stride)
       ELSE IF Done(R)
       THEN dbcF_bitreversal_swap(B, R, log2n - 1, src + src_stride,
                2 * src_stride, dst + h * dst_stride, dst_stride)
       ELSE R

\* (a<<((DBCF_Q)+1))^c: rows of twice the tile width.
tile_index_wide(B, a, c) == BitXor(Shl(a, B.Q + 1), c)

\* (a<<(DBCF_Q))^c
tile_index(B, a, c) == BitXor(Shl(a, B.Q), c)

\* (a<<(log2n-(DBCF_Q)))^(b<<(DBCF_Q))^c
tile_element(B, log2n, a, b, c) ==
    BitXor(BitXor(Shl(a, log2n - B.Q), Shl(b, B.Q)), c)

\* The tiled regime visiting every b.
tiled_skip_never(b, ib) == FALSE

\* if(ib<b) continue;
tiled_skip(b, ib) == ib < b

\* for(a) for(c) tmp[(a<<Q)^c]=dst[((a<<(log2n-Q))^(b<<Q)^c)*dst_stride];
\* iteration k is a = k / 2^Q, c = k % 2^Q.
tiled_load_step(S, k, B, log2n, b, dst, dst_stride) ==
    LET a == k \div DBCF_POW2(B.Q)
        c == k % DBCF_POW2(B.Q)
    IN TmpStore(S, tile_index(B, a, c),
                Load(S, dst + tile_element(B, log2n, a, b, c) * dst_stride))

RECURSIVE tiled_load_loop(_, _, _, _, _, _, _, _)
tiled_load_loop(S, lo, hi, B, log2n, b, dst, dst_stride) ==
    IF hi <= lo THEN S
    ELSE IF hi = lo + 1 THEN tiled_load_step(S, lo, B, log2n, b, dst, dst_stride)
    ELSE LET mid == (lo + hi) \div 2
             R == tiled_load_loop(S, lo, mid, B, log2n, b, dst, dst_stride)
         IN IF Done(R) THEN tiled_load_loop(R, mid, hi, B, log2n, b, dst, dst_stride) ELSE R

\* for(c) for(a) {i=(ic<<(log2n-Q))^(ib<<Q)^ia; t=dst[i*dst_stride];
\* dst[i*dst_stride]=tmp[(a<<Q)^c]; tmp[(a<<Q)^c]=t;}
\* iteration k is c = k / 2^Q, a = k % 2^Q.
tiled_swap_step(S, k, B, log2n, ib, dst, dst_stride) ==
    LET c == k \div DBCF_POW2(B.Q)
        a == k % DBCF_POW2(B.Q)
        ic == dbcF_bitreverse(c, B.Q)
        ia == dbcF_bitreverse(a, B.Q)
        i == tile_element(B, log2n, ic, ib, ia)
        t == Load(S, dst + i * dst_stride)
        Sa == Store(TmpTouch(S, tile_index(B, a, c)), dst + i * dst_stride,
                    TmpLoad(S, tile_index(B, a, c)))
    IN TmpStore(Sa, tile_index(B, a, c), t)

RECURSIVE tiled_swap_loop(_, _, _, _, _, _, _, _)
tiled_swap_loop(S, lo, hi, B, log2n, ib, dst, dst_stride) ==
    IF hi <= lo THEN S
    ELSE IF hi = lo + 1 THEN tiled_swap_step(S, lo, B, log2n, ib, dst, dst_stride)
    ELSE LET mid == (lo + hi) \div 2
             R == tiled_swap_loop(S, lo, mid, B, log2n, ib, dst, dst_stride)
         IN IF Done(R) THEN tiled_swap_loop(R, mid, hi, B, log2n, ib, dst, dst_stride) ELSE R

\* for(a) for(c) dst[((a<<(log2n-Q))^(b<<Q)^c)*dst_stride]=tmp[(a<<Q)^c];
tiled_store_step(S, k, B, log2n, b, dst, dst_stride) ==
    LET a == k \div DBCF_POW2(B.Q)
        c == k % DBCF_POW2(B.Q)
    IN Store(TmpTouch(S, tile_index(B, a, c)),
             dst + tile_element(B, log2n, a, b, c) * dst_stride,
             TmpLoad(S, tile_index(B, a, c)))

RECURSIVE tiled_store_loop(_, _, _, _, _, _, _, _)
tiled_store_loop(S, lo, hi, B, log2n, b, dst, dst_stride) ==
    IF hi <= lo THEN S
    ELSE IF hi = lo + 1 THEN tiled_store_step(S, lo, B, log2n, b, dst, dst_stride)
    ELSE LET mid == (lo + hi) \div 2
             R == tiled_store_loop(S, lo, mid, B, log2n, b, dst, dst_stride)
         IN IF Done(R) THEN tiled_store_loop(R, mid, hi, B, log2n, b, dst, dst_stride) ELSE R

\* One iteration of for(b=0;b<m;++b) of the Carter-Gatlin regime.
tiled_blocks_step(S, b, B, log2n, dst, dst_stride) ==
    LET ib == dbcF_bitreverse(b, log2n - 2 * B.Q)
        tile == DBCF_POW2(2 * B.Q)
        Sa == tiled_load_loop(S, 0, tile, B, log2n, b, dst, dst_stride)
        Sb == tiled_swap_loop(Sa, 0, tile, B, log2n, ib, dst, dst_stride)
    IN IF tiled_skip(b, ib) THEN S
       ELSE IF b # ib
       THEN tiled_store_loop(Sb, 0, tile, B, log2n, b, dst, dst_stride)
       ELSE Sb

RECURSIVE tiled_blocks_loop(_, _, _, _, _, _, _)
tiled_blocks_loop(S, lo, hi, B, log2n, dst, dst_stride) ==
    IF hi <= lo THEN S
    ELSE IF hi = lo + 1 THEN tiled_blocks_step(S, lo, B, log2n, dst, dst_stride)
    ELSE LET mid == (lo + hi) \div 2
             R == tiled_blocks_loop(S, lo, mid, B, log2n, dst, dst_stride)
         IN IF Done(R) THEN tiled_blocks_loop(R, mid, hi, B, log2n, dst, dst_stride) ELSE R

\* dst[i*dst_stride]=src[(2*i)*src_stride];
\* dst[(i+h)*dst_stride]=src[(2*i+1)*src_stride];
split_step(S, i, h, src, src_stride, dst, dst_stride) ==
    LET Sa == Store(S, dst + i * dst_stride, Load(S, src + (2 * i) * src_stride))
    IN Store(Sa, dst + (i + h) * dst_stride,
             Load(Sa, src + (2 * i + 1) * src_stride))

RECURSIVE split_loop(_, _, _, _, _, _, _, _)
split_loop(S, lo, hi, h, src, src_stride, dst, dst_stride) ==
    IF hi <= lo THEN S
    ELSE IF hi = lo + 1 THEN split_step(S, lo, h, src, src_stride, dst, dst_stride)
    ELSE LET mid == (lo + hi) \div 2
             R == split_loop(S, lo, mid, h, src, src_stride, dst, dst_stride)
         IN IF Done(R) THEN split_loop(R, mid, hi, h, src, src_stride, dst, dst_stride) ELSE R

\* The regime dbcF_bitreversal_permutation takes in build B.
bitreversal_regime(B, log2n, src, src_stride, dst) ==
    IF src_stride = 0 THEN "broadcast"
    ELSE IF src = dst
    THEN IF log2n <= B.direct THEN "inplace_direct"
         ELSE IF log2n <= 2 * B.Q + 2 \/ log2n <= B.recursive
         THEN "inplace_recursive"
         ELSE "inplace_tiled"
    ELSE IF log2n <= B.direct THEN "scatter"
         ELSE IF log2n <= B.recursive THEN "outofplace_recursive"
         ELSE "outofplace_split"

RECURSIVE bitreversal_permutation_build(_, _, _, _, _, _, _)
\* dbcF_bitreversal_permutation as compiled in build B.
bitreversal_permutation_build(B, S, log2n, src, src_stride, dst, dst_stride) ==
    LET n == DBCF_POW2(log2n)
        h == Shr(n, 1)
        regime == bitreversal_regime(B, log2n, src, src_stride, dst)
    IN CASE regime = "broadcast" ->
              broadcast_loop(S, 0, n, Load(S, src), dst, dst_stride)
         [] regime = "inplace_direct" ->
              inplace_loop(S, 0, n, log2n, dst, dst_stride)
         [] regime = "inplace_recursive" ->
              LET Sa == dbcF_bitreversal_swap(B, S, log2n - 2,
                            dst + dst_stride, 2 * dst_stride,
                            dst + h * dst_stride, 2 * dst_stride)
                  Sb == bitreversal_permutation_build(B, Sa, log2n - 2,
                            dst, 2 * dst_stride, dst, 2 * dst_stride)
              IN IF Done(Sa) /\ Done(Sb)
                 THEN bitreversal_permutation_build(B, Sb, log2n - 2,
                          dst + (h + 1) * dst_stride, 2 * dst_stride,
                          dst + (h + 1) * dst_stride, 2 * dst_stride)
                 ELSE S
         [] regime = "inplace_tiled" ->
              tiled_blocks_loop(S, 0, DBCF_POW2(log2n - 2 * B.Q),
                                B, log2n, dst, dst_stride)
         [] regime = "scatter" ->
              scatter_loop(S, 0, n, log2n, src, src_stride, dst, dst_stride)
         [] regime = "outofplace_recursive" ->
              LET Sa == bitreversal_permutation_build(B, S, log2n - 1,
                            src, 2 * src_stride, dst, dst_stride)
              IN IF Done(Sa)
                 THEN bitreversal_permutation_build(B, Sa, log2n - 1,
                          src + src_stride, 2 * src_stride,
                          dst + h * dst_stride, dst_stride)
                 ELSE S
         [] regime = "outofplace_split" ->
              LET Sa == split_loop(S, 0, h, h, src, src_stride, dst, dst_stride)
                  Sb == bitreversal_permutation_build(B, Sa, log2n - 1,
                            dst, dst_stride, dst, dst_stride)
              IN IF Done(Sa) /\ Done(Sb)
                 THEN bitreversal_permutation_build(B, Sb, log2n - 1,
                          dst + h * dst_stride, dst_stride,
                          dst + h * dst_stride, dst_stride)
                 ELSE S

(***************************************************************************)
(* One call of dbcF_bitreversal_permutation on arrays of 2^log2n elements. *)
(* The destination array lies in the cells 1..2n and a separate source     *)
(* array in the cells 2n+1..4n; an array used with a negative stride is    *)
(* addressed from its last element.  Every cell starts with its own        *)
(* address as value and tmp starts unset.  After the call result holds     *)
(* the set of indices tmp was accessed with.                               *)
(***************************************************************************)
\* Largest log2n of the arrays permuted.
MaxLog2n == 9

Builds == {CodeBuild} \cup SmallBuilds

PermStrides == {-1, 1, 2}

\* Pointer to element 0 of an n-element array of stride s starting at cell p.
ArrayPtr(p, s, n) == IF s < 0 THEN p + (n - 1) * (-s) ELSE p

\* The scratch buffer tmp[DBCF_TMP_BUF_SIZE] of dbcF_fft_pot, unset.
TmpInit(B) == [i \in 0..(DBCF_POW2(B.tmp) - 1) |-> Indeterminate]

PermCalls ==
    {[build |-> B, log2n |-> log2n,
      src |-> IF inplace THEN ArrayPtr(1, ds, DBCF_POW2(log2n))
              ELSE ArrayPtr(2 * DBCF_POW2(log2n) + 1, ss, DBCF_POW2(log2n)),
      ss |-> IF inplace THEN ds ELSE ss,
      dst |-> ArrayPtr(1, ds, DBCF_POW2(log2n)), ds |-> ds] :
        B \in Builds, log2n \in 0..MaxLog2n, inplace \in BOOLEAN,
        ss \in {0} \cup PermStrides, ds \in PermStrides}

InitPerm ==
    /\ pc = "permute"
    /\ args \in PermCalls
    /\ mem = [x \in 1..(4 * DBCF_POW2(args.log2n)) |-> x]
    /\ result = <<>>
    /\ entry = "s"
    /\ mem0 = mem
    /\ written = {}
    /\ rd = {}
    /\ opaque = {}
    /\ nullRead = FALSE
    /\ live = {}
    /\ hmem = NULL
    /\ hbuf = NULL
    /\ mallocs = 0
    /\ frees = 0
    /\ allocFailed = FALSE
    /\ badFree = FALSE
    /\ heapFault = FALSE
    /\ cached = -1

\* The call: the whole of dbcF_bitreversal_permutation.
PermuteCall ==
    /\ pc = "permute"
    /\ LET S == bitreversal_permutation_build(args.build,
                    [m |-> mem, w |-> {}, tmp |-> TmpInit(args.build), ix |-> {}],
                    args.log2n, args.src, args.ss, args.dst, args.ds)
       IN /\ mem' = S.m
          /\ written' = S.w
          /\ result' = <<S.ix>>
    /\ pc' = "permuted"
    /\ UNCHANGED <<args, entry, mem0, rd, opaque, nullRead, live, hmem, hbuf,
                   mallocs, frees, allocFailed, badFree, heapFault, cached>>

\* The regime the call in args runs in.
PermRegime ==
    bitreversal_regime(args.build, args.log2n, args.src, args.ss, args.dst)

PermuteBroadcast ==
    /\ pc = "permute"
    /\ PermRegime = "broadcast"
    /\ PermuteCall

PermuteInPlaceDirect ==
    /\ pc = "permute"
    /\ PermRegime = "inplace_direct"
    /\ PermuteCall

PermuteInPlaceRecursive ==
    /\ pc = "permute"
    /\ PermRegime = "inplace_recursive"
    /\ PermuteCall

PermuteInPlaceTiled ==
    /\ pc = "permute"
    /\ PermRegime = "inplace_tiled"
    /\ PermuteCall

PermuteScatter ==
    /\ pc = "permute"
    /\ PermRegime = "scatter"
    /\ PermuteCall

PermuteOutOfPlaceRecursive ==
    /\ pc = "permute"
    /\ PermRegime = "outofplace_recursive"
    /\ PermuteCall

PermuteOutOfPlaceSplit ==
    /\ pc = "permute"
    /\ PermRegime = "outofplace_split"
    /\ PermuteCall

NextPerm ==
    \/ PermuteBroadcast
    \/ PermuteInPlaceDirect
    \/ PermuteInPlaceRecursive
    \/ PermuteInPlaceTiled
    \/ PermuteScatter
    \/ PermuteOutOfPlaceRecursive
    \/ PermuteOutOfPlaceSplit

SpecPerm == InitPerm /\ [][NextPerm]_vars

deinterleave_gather_step(S, i, h, dst) ==
    LET Sa == TmpStore(S, i, Load(S, dst + 2 * i))
    IN TmpStore(Sa, h + i, Load(Sa, dst + 2 * i + 1))

RECURSIVE deinterleave_gather_loop(_, _, _, _, _)
deinterleave_gather_loop(S, lo, hi, h, dst) ==
    IF hi <= lo THEN S
    ELSE IF hi = lo + 1 THEN deinterleave_gather_step(S, lo, h, dst)
    ELSE LET mid == (lo + hi) \div 2
             R == deinterleave_gather_loop(S, lo, mid, h, dst)
         IN IF Done(R) THEN deinterleave_gather_loop(R, mid, hi, h, dst) ELSE R

\* tmp[2*i+0]=real[i]; tmp[2*i+1]=imag[i];   with real=dst, imag=dst+h
interleave_gather_step(S, i, h, dst) ==
    LET Sa == TmpStore(S, 2 * i, Load(S, dst + i))
    IN TmpStore(Sa, 2 * i + 1, Load(Sa, dst + h + i))

RECURSIVE interleave_gather_loop(_, _, _, _, _)
interleave_gather_loop(S, lo, hi, h, dst) ==
    IF hi <= lo THEN S
    ELSE IF hi = lo + 1 THEN interleave_gather_step(S, lo, h, dst)
    ELSE LET mid == (lo + hi) \div 2
             R == interleave_gather_loop(S, lo, mid, h, dst)
         IN IF Done(R) THEN interleave_gather_loop(R, mid, hi, h, dst) ELSE R

\* dst[i]=tmp[i];
copy_back_step(S, i, dst) == Store(TmpTouch(S, i), dst + i, TmpLoad(S, i))

RECURSIVE copy_back_loop(_, _, _, _)
copy_back_loop(S, lo, hi, dst) ==
    IF hi <= lo THEN S
    ELSE IF hi = lo + 1 THEN copy_back_step(S, lo, dst)
    ELSE LET mid == (lo + hi) \div 2
             R == copy_back_loop(S, lo, mid, dst)
         IN IF Done(R) THEN copy_back_loop(R, mid, hi, dst) ELSE R

\* The branch the two functions take for n elements.
interleave_path(B, log2n) ==
    IF DBCF_POW2(log2n) <= 2 THEN "return"
    ELSE IF DBCF_POW2(log2n) <= DBCF_POW2(B.tmp) THEN "copy"
    ELSE "permutations"

\* The three permutations of dbcF_interleave in the order of dbcF_deinterleave.
dbcF_interleave_whole_first(B, S, dst, log2n) ==
    LET n == DBCF_POW2(log2n)
        h == Shr(n, 1)
        path == interleave_path(B, log2n)
        Sa == bitreversal_permutation_build(B, S, log2n, dst, 1, dst, 1)
        Sb == bitreversal_permutation_build(B, Sa, log2n - 1, dst, 1, dst, 1)
    IN CASE path = "return" -> S
         [] path = "copy" ->
              copy_back_loop(interleave_gather_loop(S, 0, h, h, dst), 0, n, dst)
         [] path = "permutations" ->
              IF Done(Sa) /\ Done(Sb)
              THEN bitreversal_permutation_build(B, Sb, log2n - 1,
                                                 dst + h, 1, dst + h, 1)
              ELSE S

dbcF_deinterleave(B, S, dst, log2n) ==
    LET n == DBCF_POW2(log2n)
        h == Shr(n, 1)
        path == interleave_path(B, log2n)
        Sa == bitreversal_permutation_build(B, S, log2n, dst, 1, dst, 1)
        Sb == bitreversal_permutation_build(B, Sa, log2n - 1, dst, 1, dst, 1)
    IN CASE path = "return" -> S
         [] path = "copy" ->
              copy_back_loop(deinterleave_gather_loop(S, 0, h, h, dst), 0, n, dst)
         [] path = "permutations" ->
              IF Done(Sa) /\ Done(Sb)
              THEN bitreversal_permutation_build(B, Sb, log2n - 1,
                                                 dst + h, 1, dst + h, 1)
              ELSE S

dbcF_interleave(B, S, dst, log2n) ==
    LET n == DBCF_POW2(log2n)
        h == Shr(n, 1)
        path == interleave_path(B, log2n)
        Sa == bitreversal_permutation_build(B, S, log2n - 1, dst, 1, dst, 1)
        Sb == bitreversal_permutation_build(B, Sa, log2n - 1,
                                            dst + h, 1, dst + h, 1)
    IN CASE path = "return" -> S
         [] path = "copy" ->
              copy_back_loop(interleave_gather_loop(S, 0, h, h, dst), 0, n, dst)
         [] path = "permutations" ->
              IF Done(Sa) /\ Done(Sb)
              THEN bitreversal_permutation_build(B, Sb, log2n, dst, 1, dst, 1)
              ELSE S

(***************************************************************************)
(* One call of dbcF_deinterleave or dbcF_interleave on the cells 1..n,     *)
(* each holding its own address, followed by a call of the other function  *)
(* on the result.  The sizes are 2..2^MaxLog2n and the first size that     *)
(* does not fit the scratch buffer of the build.  result holds the set of  *)
(* indices tmp was accessed with so far.                                   *)
(***************************************************************************)
InterleaveCalls ==
    {[build |-> B, log2n |-> log2n, dst |-> 1] :
        B \in Builds, log2n \in 1..MaxLog2n} \cup
    {[build |-> B, log2n |-> B.tmp + 1, dst |-> 1] : B \in Builds}

InitInterleave ==
    /\ pc \in {"deinterleave", "interleave"}
    /\ args \in InterleaveCalls
    /\ mem = [x \in 1..DBCF_POW2(args.log2n) |-> x]
    /\ result = <<{}>>
    /\ entry = "s"
    /\ mem0 = mem
    /\ written = {}
    /\ rd = {}
    /\ opaque = {}
    /\ nullRead = FALSE
    /\ live = {}
    /\ hmem = NULL
    /\ hbuf = NULL
    /\ mallocs = 0
    /\ frees = 0
    /\ allocFailed = FALSE
    /\ badFree = FALSE
    /\ heapFault = FALSE
    /\ cached = -1

\* The memory state a call starts from: tmp holds nothing of use.
ScratchStart ==
    [m |-> mem, w |-> {}, tmp |-> TmpInit(args.build), ix |-> {}]

DeinterleaveCall ==
    /\ pc \in {"deinterleave", "interleaved"}
    /\ LET S == dbcF_deinterleave(args.build, ScratchStart, args.dst, args.log2n)
       IN /\ mem' = S.m
          /\ written' = S.w
          /\ result' = <<result[1] \cup S.ix>>
    /\ pc' = IF pc = "deinterleave" THEN "deinterleaved" ELSE "restored"
    /\ UNCHANGED <<args, entry, mem0, rd, opaque, nullRead, live, hmem, hbuf,
                   mallocs, frees, allocFailed, badFree, heapFault, cached>>

InterleaveCall ==
    /\ pc \in {"interleave", "deinterleaved"}
    /\ LET S == dbcF_interleave(args.build, ScratchStart, args.dst, args.log2n)
       IN /\ mem' = S.m
          /\ written' = S.w
          /\ result' = <<result[1] \cup S.ix>>
    /\ pc' = IF pc = "interleave" THEN "interleaved" ELSE "restored"
    /\ UNCHANGED <<args, entry, mem0, rd, opaque, nullRead, live, hmem, hbuf,
                   mallocs, frees, allocFailed, badFree, heapFault, cached>>

DeinterleaveReturn ==
    /\ interleave_path(args.build, args.log2n) = "return"
    /\ DeinterleaveCall

DeinterleaveCopy ==
    /\ interleave_path(args.build, args.log2n) = "copy"
    /\ DeinterleaveCall

DeinterleavePermutations ==
    /\ interleave_path(args.build, args.log2n) = "permutations"
    /\ DeinterleaveCall

InterleaveReturn ==
    /\ interleave_path(args.build, args.log2n) = "return"
    /\ InterleaveCall

InterleaveCopy ==
    /\ interleave_path(args.build, args.log2n) = "copy"
    /\ InterleaveCall

InterleavePermutations ==
    /\ interleave_path(args.build, args.log2n) = "permutations"
    /\ InterleaveCall

NextInterleave ==
    \/ DeinterleaveReturn
    \/ DeinterleaveCopy
    \/ DeinterleavePermutations
    \/ InterleaveReturn
    \/ InterleaveCopy
    \/ InterleavePermutations

SpecInterleave == InitInterleave /\ [][NextInterleave]_vars

(***************************************************************************)
(* C20.  dbcF_deinterleave on 2N = 2^log2n elements moves element 2i+c to  *)
(* position c*N+i, both when it copies through the scratch buffer and when *)
(* it runs the three in-place bit-reversal permutations; dbcF_interleave   *)
(* moves element c*N+i to position 2i+c and undoes dbcF_deinterleave (and  *)
(* is undone by it).                                                       *)
(***************************************************************************)
C20_Deinterleave ==
    LET N == DBCF_POW2(args.log2n - 1)
    IN /\ pc = "deinterleaved" =>
             \A i \in 0..(N - 1), c \in {0, 1} :
                 mem[args.dst + c * N + i] = mem0[args.dst + 2 * i + c]
       /\ pc = "interleaved" =>
             \A i \in 0..(N - 1), c \in {0, 1} :
                 mem[args.dst + 2 * i + c] = mem0[args.dst + c * N + i]
       /\ pc = "restored" => mem = mem0

\* The default build has deinterleaved 2048 elements, which do not fit its
\* scratch buffer, by the three permutations.
C20_Witness ==
    /\ pc = "deinterleaved"
    /\ args = [build |-> CodeBuild, log2n |-> 11, dst |-> 1]
    /\ mem[2] = 3
    /\ mem[1025] = 2
    /\ result = <<{}>>

(***************************************************************************)
(* The accesses dbcF_butterfly makes to the scratch buffer in build B:     *)
(* tr = tmp and ti = tmp + DBCF_TWIDDLES_BUF_SIZE are indexed alike, so    *)
(* each operator gives the set of indices used with tr (and with ti).      *)
(***************************************************************************)
\* DBCF_TWIDDLES_BUF_LOG2 of build B.
TwiddlesBufLog2(B) == B.tmp - 1

\* dbcF_compute_twiddles(log2n,log2b,real,imag,inverse): real[0], then
\* real[j] and real[k+j] for k = 2^i, j < k, i < log2b, then real[i] for
\* i < 2^log2b.
compute_twiddles_indices(log2b) ==
    {0}
    \cup UNION {{j, DBCF_POW2(i) + j} : <<i, j>> \in
                  {p \in (0..(log2b - 1)) \X (0..(DBCF_POW2(log2b) - 1)) :
                      p[2] < DBCF_POW2(p[1])}}
    \cup 0..(DBCF_POW2(log2b) - 1)

RECURSIVE butterfly_block_indices(_, _)
\* dbcF_butterfly_block: tr[i], i < b, once log2b <= DBCF_TWIDDLES_BUF_LOG2;
\* the two halves before that.
butterfly_block_indices(B, log2b) ==
    IF log2b <= TwiddlesBufLog2(B) THEN 0..(DBCF_POW2(log2b) - 1)
    ELSE butterfly_block_indices(B, log2b - 1)

\* dbcF_butterfly_pass: tr[d], tr[d+1] for d = 0, 2, .. < h, or the blocks.
butterfly_pass_indices(B, log2n, log2t) ==
    LET h == Shr(DBCF_POW2(log2n), 1)
    IN IF log2n = 0 THEN {}
       ELSE IF log2n - 1 <= log2t
       THEN IF h > 1
            THEN UNION {{d, d + 1} : d \in {e \in 0..(h - 1) : e % 2 = 0}}
            ELSE {}
       ELSE butterfly_block_indices(B, log2n - 1)

RECURSIVE butterfly_multipass_indices(_, _, _)
\* dbcF_butterfly_multipass: dbcF_cexp(3,tr,ti) stores tr[0] for the size-8
\* leaves; every other pass computes 2^log2t twiddles and runs one pass.
butterfly_multipass_indices(B, log2n, depth) ==
    IF depth <= 0 THEN {}
    ELSE IF depth = log2n /\ depth >= 3
    THEN {0} \cup butterfly_multipass_indices(B, log2n, depth - 3)
    ELSE LET log2d == log2n - depth + 1
             log2t == IF log2d - 1 < TwiddlesBufLog2(B)
                      THEN log2d - 1 ELSE TwiddlesBufLog2(B)
         IN compute_twiddles_indices(log2t)
            \cup butterfly_pass_indices(B, log2d, log2t)
            \cup butterfly_multipass_indices(B, log2n, depth - 1)

RECURSIVE butterfly_indices(_, _)
\* dbcF_butterfly: two half-size transforms and one pass for log2n > 12.
butterfly_indices(B, log2n) ==
    IF log2n > 12
    THEN butterfly_indices(B, log2n - 1)
         \cup butterfly_multipass_indices(B, log2n, 1)
    ELSE butterfly_multipass_indices(B, log2n, log2n)

(***************************************************************************)
(* Every user of the scratch buffer, over the builds the two static        *)
(* assertions admit: dbcF_bitreversal_permutation, dbcF_deinterleave,      *)
(* dbcF_interleave and dbcF_butterfly.  result[1] is the set of indices    *)
(* tmp was accessed with; for dbcF_butterfly result[2] is the set of       *)
(* indices used with tr and with ti.  The data arrays of dbcF_butterfly    *)
(* are not part of this specification.                                     *)
(***************************************************************************)
\* Largest DBCF_TMP_BUF_LOG2 of the small builds enumerated.
MaxTmpLog2 == 4

\* Largest log2n given to dbcF_butterfly.
MaxButterflyLog2 == 13

\* dbcF_static_assert_tmp_buf_size and dbcF_static_assert_Q
StaticAsserts(B) == B.tmp >= 2 /\ B.Q >= 1 /\ 2 * B.Q <= B.tmp

ScratchBuilds ==
    Builds \cup
    {B \in [tmp : 2..MaxTmpLog2, Q : 1..MaxTmpLog2, direct : {1}, recursive : {2}] :
        StaticAsserts(B)}

ScratchPermCalls ==
    {[build |-> B, log2n |-> log2n,
      src |-> IF inplace THEN 1 ELSE 2 * DBCF_POW2(log2n) + 1,
      ss |-> IF inplace THEN 1 ELSE ss, dst |-> 1, ds |-> 1] :
        B \in ScratchBuilds, log2n \in 0..MaxLog2n, inplace \in BOOLEAN,
        ss \in {0, 1}}

ScratchInterleaveCalls ==
    {[build |-> B, log2n |-> log2n, dst |-> 1] :
        B \in ScratchBuilds, log2n \in 1..MaxLog2n}

ButterflyCalls ==
    {[build |-> B, log2n |-> log2n] :
        B \in ScratchBuilds, log2n \in 0..MaxButterflyLog2}

InitScratch ==
    /\ \/ pc = "permute" /\ args \in ScratchPermCalls
       \/ pc \in {"deinterleave", "interleave"} /\ args \in ScratchInterleaveCalls
       \/ pc = "butterfly" /\ args \in ButterflyCalls
    /\ mem = [x \in 1..(IF pc = "butterfly" THEN 1
                        ELSE 4 * DBCF_POW2(args.log2n)) |-> x]
    /\ result = <<{}>>
    /\ entry = "s"
    /\ mem0 = mem
    /\ written = {}
    /\ rd = {}
    /\ opaque = {}
    /\ nullRead = FALSE
    /\ live = {}
    /\ hmem = NULL
    /\ hbuf = NULL
    /\ mallocs = 0
    /\ frees = 0
    /\ allocFailed = FALSE
    /\ badFree = FALSE
    /\ heapFault = FALSE
    /\ cached = -1

\* The scratch accesses of dbcF_butterfly: tr[i] is tmp[i] and ti[i] is
\* tmp[DBCF_TWIDDLES_BUF_SIZE+i].
ButterflyTwiddles ==
    /\ pc = "butterfly"
    /\ LET ix == butterfly_indices(args.build, args.log2n)
       IN result' = <<ix \cup {DBCF_POW2(TwiddlesBufLog2(args.build)) + i : i \in ix},
                      ix>>
    /\ pc' = "butterflied"
    /\ UNCHANGED <<args, mem, entry, mem0, written, rd, opaque, nullRead, live,
                   hmem, hbuf, mallocs, frees, allocFailed, badFree, heapFault,
                   cached>>

NextScratch ==
    \/ NextPerm
    \/ NextInterleave
    \/ ButterflyTwiddles

SpecScratch == InitScratch /\ [][NextScratch]_vars

DBCF_HAS_SIMD4F == 1
DBCF_HAS_SIMD2D == 2
DBCF_HAS_SIMD8F == 4
DBCF_HAS_SIMD4D == 8
DBCF_HAS_SIMD16F == 16
DBCF_HAS_SIMD8D == 32

SSE2Flags == {DBCF_HAS_SIMD4F, DBCF_HAS_SIMD2D}
AVXFlags == {DBCF_HAS_SIMD8F, DBCF_HAS_SIMD4D}
AVX512Flags == {DBCF_HAS_SIMD16F, DBCF_HAS_SIMD8D}

\* K.force = {-1}: DBC_FFT_FORCE_SIMD is not defined.
Forced(K) == K.force # {-1}

\* The flags F for which DBCF_NO_SIMD<F> is not defined.
SimdCompiled(K) ==
    (((SSE2Flags \cup AVXFlags \cup AVX512Flags)
        \ (IF K.no_avx THEN AVXFlags ELSE {}))
        \ (IF K.no_avx512 THEN AVX512Flags ELSE {}))
    \cap (IF Forced(K) THEN K.force ELSE SSE2Flags \cup AVXFlags \cup AVX512Flags)

\* if(ecx&0x18000000u): one of the bits 27 and 28 is enough.
dbcF_detect_has_avx_xgetbv(ecx) == ecx \cap {27, 28} # {}

\* dbcF_detect_simd run on the processor cpu: ret is the mask returned,
\* xgetbv tells whether dbcF_xgetbv was executed.
dbcF_detect_simd(K, cpu) ==
    LET compile_time ==
            (IF DBCF_HAS_SIMD4F \in K.cc THEN SSE2Flags ELSE {})
            \cup (IF ~K.no_avx /\ DBCF_HAS_SIMD8F \in K.cc THEN AVXFlags ELSE {})
            \cup (IF ~K.no_avx512 /\ DBCF_HAS_SIMD16F \in K.cc THEN AVX512Flags ELSE {})
        leaf1 == cpu.has_cpuid /\ cpu.maxlevel > 0
        probe == leaf1 /\ ~K.no_avx /\ dbcF_detect_has_avx_xgetbv(cpu.ecx)
        os_avx == probe /\ {1, 2} \subseteq cpu.xcr0
        os_avx512 == /\ os_avx
                     /\ ~K.no_avx512
                     /\ cpu.maxlevel >= 7
                     /\ {1, 2, 5, 6, 7} \subseteq cpu.xcr0
                     /\ 16 \in cpu.ebx
    IN IF Forced(K) THEN [ret |-> K.force, xgetbv |-> FALSE]
       ELSE [ret |-> compile_time
                     \cup (IF leaf1 /\ 26 \in cpu.edx THEN SSE2Flags ELSE {})
                     \cup (IF os_avx THEN AVXFlags ELSE {})
                     \cup (IF os_avx512 THEN AVX512Flags ELSE {}),
             xgetbv |-> probe]

Cpus ==
    [has_cpuid : BOOLEAN, maxlevel : {0, 1, 7}, edx : SUBSET {26},
     ecx : SUBSET {27, 28}, xcr0 : SUBSET {1, 2, 5, 6, 7}, ebx : SUBSET {16}]

\* Builds with runtime detection, for every compiler target.
DetectConfigs ==
    [force : {{-1}}, no_avx : BOOLEAN, no_avx512 : BOOLEAN,
     cc : {{}, SSE2Flags, SSE2Flags \cup AVXFlags,
           SSE2Flags \cup AVXFlags \cup AVX512Flags}]

InitDetect ==
    /\ pc = "detect"
    /\ args \in [config : DetectConfigs, cpu : Cpus]
    /\ mem = InputMem
    /\ result = <<>>
    /\ RestInit

\* The call of dbcF_detect_simd; the second action is a repeated call (no
\* DBC_FFT_CACHE_CPU_DETECTION): the processor answers alike.
DetectSimd ==
    /\ pc = "detect"
    /\ result' = <<dbcF_detect_simd(args.config, args.cpu)>>
    /\ pc' = "detected"
    /\ UNCHANGED <<args, mem, RestVars>>

DetectAgain ==
    /\ pc = "detected"
    /\ result' = <<dbcF_detect_simd(args.config, args.cpu)>>
    /\ pc' = "detected twice"
    /\ UNCHANGED <<args, mem, RestVars>>

NextDetect ==
    \/ DetectSimd
    \/ DetectAgain

SpecDetect == InitDetect /\ [][NextDetect]_vars

(***************************************************************************)
(* C30.  Runtime detection executes XGETBV only when CPUID leaf 1 reports  *)
(* both AVX (ECX bit 28) and OSXSAVE (ECX bit 27); it adds the AVX widths  *)
(* {8f, 4d} only when moreover XCR0 bits 1 and 2 are set, and the AVX-512  *)
(* widths {16f, 8d} only when moreover the maximum CPUID leaf is >= 7,     *)
(* leaf 7 EBX bit 16 is set and XCR0 bits 5, 6, 7 are set.  (The widths    *)
(* the compiler target already grants are not added by the detection.)     *)
(***************************************************************************)
C30_XgetbvGuarded ==
    pc # "detect" =>
        LET r == result[1]
            K == args.config
            cpu == args.cpu
            granted == dbcF_detect_simd(K, [cpu EXCEPT !.has_cpuid = FALSE]).ret
            added == r.ret \ granted
            both == cpu.has_cpuid /\ cpu.maxlevel > 0 /\ {27, 28} \subseteq cpu.ecx
        IN /\ r.xgetbv => both
           /\ added \cap AVXFlags # {} => both /\ {1, 2} \subseteq cpu.xcr0
           /\ added \cap AVX512Flags # {} =>
                 /\ both
                 /\ {1, 2, 5, 6, 7} \subseteq cpu.xcr0
                 /\ cpu.maxlevel >= 7
                 /\ 16 \in cpu.ebx

(***************************************************************************)
(* The SIMD back-end of dbcF_butterfly_multipass.  type is "float" or      *)
(* "double"; U records the widths compiled in (compiled), the mask         *)
(* dbcf_detect_simd returns (mask) and DBCF_TWIDDLES_BUF_LOG2 (tb).        *)
(***************************************************************************)
\* The widths of a type in the order the code tries them.
SimdSizes(type) == IF type = "float" THEN <<16, 8, 4>> ELSE <<8, 4, 2>>

\* DBCF_HAS_SIMD<size><F|D>
SimdFlag(type, size) ==
    IF type = "float"
    THEN CASE size = 4 -> DBCF_HAS_SIMD4F
           [] size = 8 -> DBCF_HAS_SIMD8F
           [] size = 16 -> DBCF_HAS_SIMD16F
    ELSE CASE size = 2 -> DBCF_HAS_SIMD2D
           [] size = 4 -> DBCF_HAS_SIMD4D
           [] size = 8 -> DBCF_HAS_SIMD8D

\* The test with (size>>log2t)<=1 for the twiddles.
DBCF_TRY_SIMD_PASS_wide(U, type, size, log2n, log2t) ==
    /\ SimdFlag(type, size) \in U.compiled
    /\ SimdFlag(type, size) \in U.mask
    /\ Shr(Shl(size, 2), log2n) <= 1
    /\ Shr(size, log2t) <= 1

\* #ifndef DBCF_NO_SIMD<size>, if(simd_flags&DBCF_HAS_SIMD<size>) and
\* if(((size<<2)>>log2n)<=1&&((size<<1)>>log2t)<=1)
DBCF_TRY_SIMD_PASS(U, type, size, log2n, log2t) ==
    /\ SimdFlag(type, size) \in U.compiled
    /\ SimdFlag(type, size) \in U.mask
    /\ Shr(Shl(size, 2), log2n) <= 1
    /\ Shr(Shl(size, 1), log2t) <= 1

\* dbcF_butterfly_pass_optimized_float and _double: the width of the kernel
\* that computed the twiddles and ran the pass (the code returns 1), or 0.
dbcF_butterfly_pass_optimized(U, type, log2n, log2t) ==
    LET W == SimdSizes(type)
    IN IF DBCF_TRY_SIMD_PASS(U, type, W[1], log2n, log2t) THEN W[1]
       ELSE IF DBCF_TRY_SIMD_PASS(U, type, W[2], log2n, log2t) THEN W[2]
       ELSE IF DBCF_TRY_SIMD_PASS(U, type, W[3], log2n, log2t) THEN W[3]
       ELSE 0

RECURSIVE simd_pass_loop(_, _, _, _, _)
\* for(log2d=log2n-depth+1;log2d<=log2n;++log2d): R.passes lists the passes
\* tried, each with the width that ran it (0: declined, the loop ends).
simd_pass_loop(U, type, log2n, log2d, R) ==
    IF log2d > log2n THEN R
    ELSE LET log2t == IF log2d - 1 < U.tb THEN log2d - 1 ELSE U.tb
             w == dbcF_butterfly_pass_optimized(U, type, log2d, log2t)
             P == Append(R.passes, [log2d |-> log2d, log2t |-> log2t, width |-> w])
         IN IF w # 0
            THEN simd_pass_loop(U, type, log2n, log2d + 1,
                                [R EXCEPT !.ret = @ + 1, !.passes = P])
            ELSE [R EXCEPT !.passes = P]

\* The leaf block of the two variants: whether it ends in return 0.  The
\* float variant returns 0 when no compiled width is enabled; the double
\* variant falls through to the label ok.
simd_leaf_declines(type, ran) == type = "float" /\ ~ran

\* dbcF_butterfly_multipass_optimized_float and _double: ret is the value
\* returned, leaves whether the FFT-8 leaves were run, passes as above.
dbcF_butterfly_multipass_optimized(U, type, log2n, depth, real_stride, imag_stride) ==
    LET none == [ret |-> 0, leaves |-> FALSE, passes |-> <<>>]
        W == SimdSizes(type)
        any == IF type = "float"
               THEN U.mask \cap {DBCF_HAS_SIMD4F, DBCF_HAS_SIMD8F, DBCF_HAS_SIMD16F} # {}
               ELSE U.mask \cap {DBCF_HAS_SIMD2D, DBCF_HAS_SIMD4D} # {}
        leaf == depth = log2n /\ depth >= 3
        ran == \E i \in 1..3 : SimdFlag(type, W[i]) \in U.compiled \cap U.mask
        depth1 == IF leaf THEN depth - 3 ELSE depth
    IN IF real_stride # 1 \/ imag_stride # 1 THEN none
       ELSE IF ~any THEN none
       ELSE IF U.tb < (IF type = "float" THEN 3 ELSE 2) THEN none
       ELSE IF leaf /\ simd_leaf_declines(type, ran) THEN none
       ELSE IF log2n - depth1 + 1 > 3
       THEN simd_pass_loop(U, type, log2n, log2n - depth1 + 1,
                           [ret |-> IF leaf THEN 3 ELSE 0,
                            leaves |-> leaf /\ ran, passes |-> <<>>])
       ELSE none

\* Builds with DBC_FFT_FORCE_SIMD: the documented example, AVX alone, and all.
ForceConfigs ==
    [force : {SSE2Flags, AVXFlags, SSE2Flags \cup AVXFlags \cup AVX512Flags},
     no_avx : BOOLEAN, no_avx512 : BOOLEAN, cc : {{}}]

\* The masks dbcf_detect_simd may return in configuration K.
SimdMasksOf(K) == {dbcF_detect_simd(K, cpu).ret : cpu \in Cpus}

SimdSetups ==
    UNION {{[compiled |-> SimdCompiled(K), mask |-> m, tb |-> B.tmp - 1] :
               m \in SimdMasksOf(K), B \in ScratchBuilds} :
           K \in DetectConfigs \cup ForceConfigs}

\* Largest log2n given to the SIMD back-end.
MaxSimdLog2 == 7

SimdCalls ==
    {[setup |-> U, type |-> type, log2n |-> p[1], depth |-> p[2],
      real_stride |-> st[1], imag_stride |-> st[2]] :
        U \in SimdSetups, type \in {"float", "double"},
        p \in {q \in (1..MaxSimdLog2) \X (1..MaxSimdLog2) : q[2] <= q[1]},
        st \in {<<1, 1>>, <<1, 2>>, <<2, 1>>}}

InitSimd ==
    /\ pc = "multipass"
    /\ args \in SimdCalls
    /\ mem = InputMem
    /\ result = <<>>
    /\ RestInit

MultipassOptimized ==
    /\ result' = <<dbcF_butterfly_multipass_optimized(
                       args.setup, args.type, args.log2n, args.depth,
                       args.real_stride, args.imag_stride)>>
    /\ pc' = "multipass done"
    /\ UNCHANGED <<args, mem, RestVars>>

MultipassOptimizedFloat ==
    /\ pc = "multipass"
    /\ args.type = "float"
    /\ MultipassOptimized

MultipassOptimizedDouble ==
    /\ pc = "multipass"
    /\ args.type = "double"
    /\ MultipassOptimized

NextSimd ==
    \/ MultipassOptimizedFloat
    \/ MultipassOptimizedDouble

SpecSimd == InitSimd /\ [][NextSimd]_vars

\* The stages a run of the back-end executed on the data.
StagesRun(r) ==
    (IF r.leaves THEN {1, 2, 3} ELSE {})
    \cup {r.passes[i].log2d : i \in {j \in DOMAIN r.passes : r.passes[j].width # 0}}

(***************************************************************************)
(* C22.  Whatever the variant, (log2n, depth) with 1 <= depth <= log2n and *)
(* the mask, the count r returned by dbcF_butterfly_multipass_optimized    *)
(* satisfies 0 <= r <= depth and exactly the stages log2n-depth+1 ..       *)
(* log2n-depth+r were executed (a count including the leaf stages means    *)
(* the FFT-8 leaves were run); with a stride other than 1 it returns 0     *)
(* and has run and written nothing.                                        *)
(***************************************************************************)
C22_CountIsStagesRun ==
    pc = "multipass done" =>
        LET r == result[1]
            first == args.log2n - args.depth + 1
        IN /\ r.ret \in 0..args.depth
           /\ StagesRun(r) = first..(first + r.ret - 1)
           /\ (args.real_stride # 1 \/ args.imag_stride # 1) =>
                 r.ret = 0 /\ r.passes = <<>> /\ ~r.leaves

\* The widths of the type that the mask enables and the build compiled in.
EnabledWidths(U, type) ==
    {SimdSizes(type)[i] : i \in {j \in 1..3 :
        SimdFlag(type, SimdSizes(type)[j]) \in U.compiled \cap U.mask}}

\* The largest element of a set of widths, 0 for the empty set.
Widest(Ws) == IF Ws = {} THEN 0 ELSE CHOOSE w \in Ws : \A v \in Ws : v <= w

(***************************************************************************)
(* C23 as stated.  A pass at stage log2d with h = 2^(log2d-1) and 2^log2t  *)
(* twiddles uses the largest enabled and compiled width W with W <= h/2    *)
(* and W <= 2^log2t, and is declined only when there is none.              *)
(***************************************************************************)
C23_WidestWidthAsStated ==
    pc = "multipass done" =>
        \A i \in DOMAIN result[1].passes :
            LET p == result[1].passes[i]
                h == DBCF_POW2(p.log2d - 1)
            IN p.width = Widest({W \in EnabledWidths(args.setup, args.type) :
                                    2 * W <= h /\ W <= DBCF_POW2(p.log2t)})

(***************************************************************************)
(* C23 amended.  The width used is the largest enabled and compiled width  *)
(* W with W <= h/2 and 2*W <= 2^log2t; the pass is declined only when no   *)
(* enabled width satisfies both.                                           *)
(***************************************************************************)
C23_WidestWidth ==
    pc = "multipass done" =>
        \A i \in DOMAIN result[1].passes :
            LET p == result[1].passes[i]
                h == DBCF_POW2(p.log2d - 1)
            IN p.width = Widest({W \in EnabledWidths(args.setup, args.type) :
                                    2 * W <= h /\ 2 * W <= DBCF_POW2(p.log2t)})

\* A float pass at stage 5 with 8 twiddles: 8f is enabled and 8 <= h/2, but
\* 2*8 > 8, and the pass ran with width 4.
C23_Witness ==
    /\ pc = "multipass done"
    /\ args.type = "float"
    /\ args.setup.tb = 3
    /\ {DBCF_HAS_SIMD4F, DBCF_HAS_SIMD8F} \subseteq args.setup.compiled \cap args.setup.mask
    /\ \E i \in DOMAIN result[1].passes :
           result[1].passes[i] = [log2d |-> 5, log2t |-> 3, width |-> 4]

(***************************************************************************)
(* The schedule of dbcF_butterfly.  The data is abstracted to the number   *)
(* of butterfly stages each element has been through: mem[e+1] = s says    *)
(* that the stages 1..s, and no other, have been applied in this order to  *)
(* the blocks holding element e; Poisoned marks an element of a block that *)
(* got a stage twice or before the stage below it.  result is the stack of *)
(* the calls in progress, innermost first.                                 *)
(***************************************************************************)
Poisoned == -1

\* Stages first..last applied in one sweep (one pass, or the FFT-8 leaves
\* for stages 1..3) to the blocks of the 2^log2n elements from base.
apply_stages(L, base, log2n, first, last) ==
    [x \in DOMAIN L |->
        IF x - 1 \in base..(base + DBCF_POW2(log2n) - 1)
        THEN IF L[x] = first - 1 THEN last ELSE Poisoned
        ELSE L[x]]

RECURSIVE apply_simd_passes(_, _, _, _, _)
\* The passes the SIMD back-end ran, in the order it ran them.
apply_simd_passes(L, base, log2n, passes, i) ==
    IF i > Len(passes) \/ passes[i].width = 0 THEN L
    ELSE apply_simd_passes(
             apply_stages(L, base, log2n, passes[i].log2d, passes[i].log2d),
             base, log2n, passes, i + 1)

\* What a call of DBCF_butterfly_multipass_optimized that returned r did.
apply_simd(L, base, log2n, r) ==
    apply_simd_passes(
        IF r.leaves THEN apply_stages(L, base, log2n, 1, 3) ELSE L,
        base, log2n, r.passes, 1)

\* if(log2n>12) of dbcF_butterfly
butterfly_splits(log2n) == log2n > 12

\* Largest log2n of the runs in every SIMD setup.
MaxScheduleLog2 == 6

\* Largest log2n of the runs in the default build.
MaxSplitLog2 == 13

ScheduleCalls ==
    {[setup |-> U, type |-> type, log2n |-> log2n, stride |-> st] :
        U \in SimdSetups, type \in {"float", "double"},
        log2n \in 0..MaxScheduleLog2, st \in {1, 2}}
    \cup
    {[setup |-> U, type |-> type, log2n |-> log2n, stride |-> 1] :
        U \in {V \in SimdSetups : V.tb = TwiddlesBufLog2(CodeBuild)},
        type \in {"float", "double"}, log2n \in 12..MaxSplitLog2}

InitSchedule ==
    /\ pc = "butterfly"
    /\ args \in ScheduleCalls
    /\ mem = [x \in 1..DBCF_POW2(args.log2n) |-> 0]
    /\ result = <<[fn |-> "butterfly", log2n |-> args.log2n, depth |-> 0, base |-> 0]>>
    /\ entry = "s"
    /\ mem0 = mem
    /\ written = {}
    /\ rd = {}
    /\ opaque = {}
    /\ nullRead = FALSE
    /\ live = {}
    /\ hmem = NULL
    /\ hbuf = NULL
    /\ mallocs = 0
    /\ frees = 0
    /\ allocFailed = FALSE
    /\ badFree = FALSE
    /\ heapFault = FALSE
    /\ cached = -1

\* The innermost call in progress.
Frame == result[1]

\* The value DBCF_butterfly_multipass_optimized returns to the innermost
\* call of dbcF_butterfly_multipass.
SimdRun ==
    dbcF_butterfly_multipass_optimized(
        args.setup, args.type, Frame.log2n, Frame.depth, args.stride, args.stride)

ScheduleFrame ==
    UNCHANGED <<args, entry, mem0, written, rd, opaque, nullRead, live, hmem,
                hbuf, mallocs, frees, allocFailed, badFree, heapFault, cached>>

\* dbcF_butterfly, log2n > 12: the two halves, then one pass.
ButterflySplit ==
    /\ pc = "butterfly"
    /\ result # <<>>
    /\ Frame.fn = "butterfly"
    /\ butterfly_splits(Frame.log2n)
    /\ result' = <<[fn |-> "butterfly", log2n |-> Frame.log2n - 1, depth |-> 0,
                    base |-> Frame.base],
                   [fn |-> "butterfly", log2n |-> Frame.log2n - 1, depth |-> 0,
                    base |-> Frame.base + DBCF_POW2(Frame.log2n - 1)],
                   [fn |-> "multipass", log2n |-> Frame.log2n, depth |-> 1,
                    base |-> Frame.base]>> \o Tail(result)
    /\ UNCHANGED <<pc, mem>>
    /\ ScheduleFrame

\* dbcF_butterfly, log2n <= 12: one multipass of full depth.
ButterflyFlat ==
    /\ pc = "butterfly"
    /\ result # <<>>
    /\ Frame.fn = "butterfly"
    /\ ~butterfly_splits(Frame.log2n)
    /\ result' = <<[fn |-> "multipass", log2n |-> Frame.log2n,
                    depth |-> Frame.log2n, base |-> Frame.base]>> \o Tail(result)
    /\ UNCHANGED <<pc, mem>>
    /\ ScheduleFrame

\* One iteration of while(depth>0) in which the SIMD back-end returned d > 0.
MultipassSimd ==
    /\ pc = "butterfly"
    /\ result # <<>>
    /\ Frame.fn = "multipass"
    /\ Frame.depth > 0
    /\ SimdRun.ret > 0
    /\ mem' = apply_simd(mem, Frame.base, Frame.log2n, SimdRun)
    /\ result' = <<[Frame EXCEPT !.depth = @ - SimdRun.ret]>> \o Tail(result)
    /\ UNCHANGED pc
    /\ ScheduleFrame

\* One iteration that runs the FFT-8 leaves.
MultipassLeaves ==
    /\ pc = "butterfly"
    /\ result # <<>>
    /\ Frame.fn = "multipass"
    /\ Frame.depth > 0
    /\ SimdRun.ret = 0
    /\ Frame.depth = Frame.log2n /\ Frame.depth >= 3
    /\ mem' = apply_stages(mem, Frame.base, Frame.log2n, 1, 3)
    /\ result' = <<[Frame EXCEPT !.depth = @ - 3]>> \o Tail(result)
    /\ UNCHANGED pc
    /\ ScheduleFrame

\* One iteration that runs the scalar pass of stage log2d.
MultipassPass ==
    /\ pc = "butterfly"
    /\ result # <<>>
    /\ Frame.fn = "multipass"
    /\ Frame.depth > 0
    /\ SimdRun.ret = 0
    /\ ~(Frame.depth = Frame.log2n /\ Frame.depth >= 3)
    /\ LET log2d == Frame.log2n - Frame.depth + 1
       IN mem' = apply_stages(mem, Frame.base, Frame.log2n, log2d, log2d)
    /\ result' = <<[Frame EXCEPT !.depth = @ - 1]>> \o Tail(result)
    /\ UNCHANGED pc
    /\ ScheduleFrame

\* The loop ends and dbcF_butterfly_multipass returns.
MultipassReturn ==
    /\ pc = "butterfly"
    /\ result # <<>>
    /\ Frame.fn = "multipass"
    /\ Frame.depth <= 0
    /\ result' = Tail(result)
    /\ UNCHANGED <<pc, mem>>
    /\ ScheduleFrame

\* The outermost dbcF_butterfly returns.
ButterflyReturn ==
    /\ pc = "butterfly"
    /\ result = <<>>
    /\ pc' = "butterflied"
    /\ UNCHANGED <<result, mem>>
    /\ ScheduleFrame

NextSchedule ==
    \/ ButterflySplit
    \/ ButterflyFlat
    \/ MultipassSimd
    \/ MultipassLeaves
    \/ MultipassPass
    \/ MultipassReturn
    \/ ButterflyReturn

SpecSchedule == InitSchedule /\ [][NextSchedule]_vars

RECURSIVE ButterflySteps(_)
\* A bound on the steps a call of dbcF_butterfly takes in this model.
ButterflySteps(log2n) ==
    IF butterfly_splits(log2n) THEN 2 * ButterflySteps(log2n - 1) + 3
    ELSE log2n + 2

RECURSIVE StepsLeft(_)
\* A bound on the steps the calls on the stack st still take.
StepsLeft(st) ==
    IF st = <<>> THEN 0
    ELSE (IF st[1].fn = "butterfly" THEN ButterflySteps(st[1].log2n)
          ELSE (IF st[1].depth > 0 THEN st[1].depth ELSE 0) + 1)
         + StepsLeft(Tail(st))

(***************************************************************************)
(* C21.  dbcF_butterfly terminates (every step lowers the number of steps  *)
(* left, which is never negative), and applies each stage s = 1..log2n     *)
(* exactly once to every block of size 2^s, a stage only after the stage   *)
(* below it was applied to both halves of the block: in the flat schedule  *)
(* (log2n <= 12, stages 1..3 fused in the leaves), in the recursive split  *)
(* (log2n > 12), and whatever the SIMD back-end consumes at each           *)
(* iteration of dbcF_butterfly_multipass.                                  *)
(***************************************************************************)
C21_EveryStageOnceInOrder ==
    /\ [](/\ \A x \in DOMAIN mem : mem[x] # Poisoned
          /\ pc = "butterflied" => \A x \in DOMAIN mem : mem[x] = args.log2n)
    /\ [][pc = "butterfly" => StepsLeft(result') < StepsLeft(result)
                              \/ (result = <<>> /\ pc' = "butterflied")]_vars

(***************************************************************************)
(* Twiddle tables.  A complex number of modulus 1 is kept as its angle:    *)
(* turn counts units of 1/den of a turn, den being 2^log2n, or n for the   *)
(* chirp table.  An entry records also the seeds it is a product of        *)
(* (seeds), the complex multiplications that formed it (mults), whether it *)
(* holds exp(..) or still exp(..)-1 (one), and the loop that stored it     *)
(* (by).  A table T has the entries (tab), the indices stored to (w) and a *)
(* flag for a load of an entry not yet stored or an index outside the      *)
(* table (bad).                                                            *)
(***************************************************************************)
Unwritten == [turn |-> Indeterminate, seeds |-> {}, mults |-> 0, one |-> FALSE, by |-> "none"]

\* real[0]=DBCF_ZERO; imag[0]=DBCF_ZERO: exp(0)-1.
ExpM1Zero == [turn |-> 0, seeds |-> {}, mults |-> 0, one |-> FALSE, by |-> "doubling"]

EmptyTable(cap) == [tab |-> [i \in 0..(cap - 1) |-> Unwritten], w |-> {}, bad |-> FALSE]

\* T with v stored at index i, v computed from the entries at the indices reads.
TwStore(T, i, v, reads) ==
    [tab |-> IF i \in DOMAIN T.tab THEN [T.tab EXCEPT ![i] = v] ELSE T.tab,
     w |-> T.w \cup {i},
     bad |-> T.bad \/ i \notin DOMAIN T.tab \/ ~(reads \subseteq T.w)]

TwLoad(T, i) == IF i \in DOMAIN T.tab THEN T.tab[i] ELSE Unwritten

\* The angle of the seed exp(+-2*pi*i*p/q), in units of 1/den: y=-y unless
\* inverse.
seed_turn(p, q, den, inverse) ==
    LET t == (p * den) \div q
    IN IF inverse # 0 THEN t % den ELSE (den - t) % den

\* (x*real[j]-y*imag[j])+(x+real[j]), (y*real[j]+x*imag[j])+(y+imag[j]):
\* (1+seed)*(1+v)-1, which needs v to hold exp(..)-1.
expm1_times_seed(v, s, id, den) ==
    [turn |-> IF v.one \/ v.turn = Indeterminate THEN Indeterminate
              ELSE (v.turn + s) % den,
     seeds |-> v.seeds \cup {id}, mults |-> v.mults + 1, one |-> FALSE,
     by |-> "doubling"]

\* real[i]=DBCF_ONE+real[i]
plus_one(v) == [v EXCEPT !.one = TRUE]

\* dbcF_cexpm1(log2b-i,&x,&y): the seed of the table size instead of log2n.
twiddle_seed_log2_of_b(log2n, log2b, i) == log2b - i

\* dbcF_cexpm1(log2n-i,&x,&y): the argument of the seed of level i.
twiddle_seed_log2(log2n, log2b, i) == log2n - i

\* for(j=0;j<k;++j) {real[k+j]=..; imag[k+j]=..;}: the iterations load
\* entries below k and store entries from k on, so none sees another's store.
twiddles_inner(T, k, s, id, den) ==
    [tab |-> [x \in DOMAIN T.tab |->
                 IF x \in k..(2 * k - 1)
                 THEN expm1_times_seed(TwLoad(T, x - k), s, id, den)
                 ELSE T.tab[x]],
     w |-> T.w \cup (k..(2 * k - 1)),
     bad |-> \/ T.bad
             \/ ~((k..(2 * k - 1)) \subseteq DOMAIN T.tab)
             \/ ~((0..(k - 1)) \subseteq T.w)]

RECURSIVE twiddles_levels(_, _, _, _, _)
\* for(i=0;i<log2b;++i)
twiddles_levels(T, i, log2n, log2b, inverse) ==
    IF i >= log2b THEN T
    ELSE LET den == DBCF_POW2(log2n)
             s == seed_turn(1, DBCF_POW2(twiddle_seed_log2(log2n, log2b, i)),
                            den, inverse)
         IN twiddles_levels(twiddles_inner(T, DBCF_POW2(i), s, i, den),
                            i + 1, log2n, log2b, inverse)

\* for(i=0;i<hi;++i) real[i]=DBCF_ONE+real[i];
plus_one_loop(T, hi) ==
    [tab |-> [x \in DOMAIN T.tab |->
                 IF x < hi THEN plus_one(T.tab[x]) ELSE T.tab[x]],
     w |-> T.w \cup (0..(hi - 1)),
     bad |-> \/ T.bad
             \/ ~((0..(hi - 1)) \subseteq DOMAIN T.tab)
             \/ ~((0..(hi - 1)) \subseteq T.w)]

\* dbcF_compute_twiddles on a table of 2^log2b entries.
compute_twiddles_table(log2n, log2b, inverse) ==
    plus_one_loop(
        twiddles_levels(TwStore(EmptyTable(DBCF_POW2(log2b)), 0, ExpM1Zero, {}),
                        0, log2n, log2b, inverse),
        DBCF_POW2(log2b))

\* Largest log2n of the twiddle tables.
MaxTwiddleLog2 == 7

TwiddleCalls ==
    {[log2n |-> p[1], log2b |-> p[2], inverse |-> inv] :
        p \in {q \in (0..MaxTwiddleLog2) \X (0..MaxTwiddleLog2) : q[2] <= q[1]},
        inv \in {0, 1}}

\* dbcF_compute_twiddles(log2n,log2b,real,imag,inverse)
ComputeTwiddles ==
    /\ pc = "twiddles"
    /\ result' = <<compute_twiddles_table(args.log2n, args.log2b, args.inverse)>>
    /\ pc' = "twiddles done"
    /\ UNCHANGED <<args, mem, RestVars>>

\* The set bits of k.
BitsOf(k) == {i \in 0..MaxBits : Shr(k, i) % 2 = 1}

\* The rotation by k/den of a turn, clockwise for the forward transform.
Rotation(k, den, inverse) ==
    IF inverse # 0 THEN k % den ELSE (den - (k % den)) % den

(***************************************************************************)
(* C24.  dbcF_compute_twiddles(log2n, log2b, ..) with 0 <= log2b <= log2n  *)
(* stores exactly the entries 0 .. 2^log2b-1, loads an entry only after it *)
(* was stored, and entry k is the product of the seeds                     *)
(* exp(+-2*pi*i*2^i/2^log2n) over exactly the set bits i of k: the         *)
(* rotation by k/2^log2n of a turn, formed with at most log2b complex      *)
(* multiplications.                                                        *)
(***************************************************************************)
C24_Twiddles ==
    pc = "twiddles done" =>
        LET T == result[1]
        IN /\ T.w = 0..(DBCF_POW2(args.log2b) - 1)
           /\ ~T.bad
           /\ \A k \in DOMAIN T.tab :
                 /\ T.tab[k].one
                 /\ T.tab[k].seeds = BitsOf(k)
                 /\ T.tab[k].mults = Cardinality(BitsOf(k))
                 /\ T.tab[k].mults <= args.log2b
                 /\ T.tab[k].turn = Rotation(k, DBCF_POW2(args.log2n), args.inverse)

\* Eight forward twiddles of a size-64 pass: entry 5 is seed 0 times seed 2,
\* the rotation by -5/64 of a turn.
C24_Witness ==
    /\ pc = "twiddles done"
    /\ args = [log2n |-> 6, log2b |-> 3, inverse |-> 0]
    /\ result[1].tab[5] = [turn |-> 59, seeds |-> {0, 2}, mults |-> 2,
                           one |-> TRUE, by |-> "doubling"]

\* The multiplier (C,S) = (DBCF_ONE,DBCF_ZERO) of the outermost block.
UnitMultiplier == [turn |-> 0, mults |-> 0]

\* (C*X-S*Y, S*X+C*Y): the multiplier times the seed of angle s.
multiplier_times_seed(M, s, den) ==
    [turn |-> (M.turn + s) % den, mults |-> M.mults + 1]

\* c=C*tr[i]-S*ti[i]; s=S*tr[i]+C*ti[i]: the pair lo+i of the pass is
\* combined with the multiplier times precomputed twiddle i.
block_pair(M, T, lo, i, den) ==
    LET t == TwLoad(T, i)
    IN [pair |-> lo + i, tw |-> i,
        turn |-> IF t.turn = Indeterminate \/ ~t.one THEN Indeterminate
                 ELSE (M.turn + t.turn) % den,
        mturn |-> M.turn, factors |-> M.mults]

\* dbcF_cexp(log2n-log2b,&X,&Y): the seed of the whole block.
block_seed_log2_of_block(log2n, log2b) == log2n - log2b

\* dbcF_cexp(log2n-log2b+1,&X,&Y): the seed of half the block.
block_seed_log2(log2n, log2b) == log2n - log2b + 1

RECURSIVE dbcF_butterfly_block(_, _, _, _, _, _, _)
\* dbcF_butterfly_block on the block of pairs lo .. lo+2^log2b-1 with the
\* multiplier M and the table T of a build with DBCF_TWIDDLES_BUF_LOG2 = tb:
\* the pairs combined, in order.
dbcF_butterfly_block(log2n, log2b, lo, M, inverse, T, tb) ==
    LET b == DBCF_POW2(log2b)
        h == Shr(b, 1)
        den == DBCF_POW2(log2n)
    IN IF log2b <= tb
       THEN [i \in 1..b |-> block_pair(M, T, lo, i - 1, den)]
       ELSE LET s == seed_turn(1, DBCF_POW2(block_seed_log2(log2n, log2b)),
                               den, inverse)
            IN dbcF_butterfly_block(log2n, log2b - 1, lo, M, inverse, T, tb)
               \o dbcF_butterfly_block(log2n, log2b - 1, lo + h,
                                       multiplier_times_seed(M, s, den),
                                       inverse, T, tb)

\* How far log2n-1 exceeds DBCF_TWIDDLES_BUF_LOG2 in the passes checked.
MaxBlockDepth == 3

\* Passes whose half size exceeds the table, in the build of the source and
\* in builds with small tables.
BlockCalls ==
    {[log2n |-> tb + 1 + d, tb |-> tb, inverse |-> inv] :
        tb \in {TwiddlesBufLog2(B) : B \in ScratchBuilds},
        d \in 1..MaxBlockDepth, inv \in {0, 1}}

\* dbcF_butterfly_pass, log2n-1 > DBCF_TWIDDLES_BUF_LOG2: one block of the
\* pass, with the table that dbcF_butterfly computed.
ButterflyPassBlock ==
    /\ pc = "block"
    /\ result' = <<dbcF_butterfly_block(
                       args.log2n, args.log2n - 1, 0, UnitMultiplier,
                       args.inverse,
                       compute_twiddles_table(args.log2n, args.tb, args.inverse),
                       args.tb)>>
    /\ pc' = "block done"
    /\ UNCHANGED <<args, mem, RestVars>>

(***************************************************************************)
(* C25.  A pass with log2n-1 > DBCF_TWIDDLES_BUF_LOG2 (TB) combines every  *)
(* pair i, 0 <= i < 2^(log2n-1), exactly once, with the effective twiddle  *)
(* (C,S)*t[i mod 2^TB] of angle i/2^log2n; the multiplier (C,S) is the     *)
(* product of at most log2n-1-TB seed factors and is the rotation by       *)
(* (i - i mod 2^TB)/2^log2n.                                               *)
(***************************************************************************)
C25_BlockPairs ==
    pc = "block done" =>
        LET P == result[1]
            den == DBCF_POW2(args.log2n)
            t == DBCF_POW2(args.tb)
        IN /\ Len(P) = DBCF_POW2(args.log2n - 1)
           /\ {P[x].pair : x \in DOMAIN P} = 0..(DBCF_POW2(args.log2n - 1) - 1)
           /\ \A x \in DOMAIN P :
                 LET i == P[x].pair
                 IN /\ P[x].tw = i % t
                    /\ P[x].turn = Rotation(i, den, args.inverse)
                    /\ P[x].mturn = Rotation(i - (i % t), den, args.inverse)
                    /\ P[x].factors <= args.log2n - 1 - args.tb

\* A forward pass of size 64 with 4 precomputed twiddles: pair 29 uses
\* twiddle 1 and the multiplier of angle -28/64, a product of three seeds.
C25_Witness ==
    /\ pc = "block done"
    /\ args = [log2n |-> 6, tb |-> 2, inverse |-> 0]
    /\ result[1][30] = [pair |-> 29, tw |-> 1, turn |-> 35, mturn |-> 36,
                        factors |-> 3]

\* real[i]=-real[m-i]; imag[i]=imag[m-i]: the reflection in the imaginary
\* axis of an entry holding exp(..).
mirrored(v, m) ==
    [turn |-> IF v.one /\ v.turn # Indeterminate THEN (m - v.turn) % (2 * m)
              ELSE Indeterminate,
     seeds |-> v.seeds, mults |-> v.mults, one |-> v.one, by |-> "mirror"]

\* real[m+i]=-real[i]; imag[m+i]=-imag[i]
negated(v, m) ==
    [turn |-> IF v.one /\ v.turn # Indeterminate THEN (v.turn + m) % (2 * m)
              ELSE Indeterminate,
     seeds |-> v.seeds, mults |-> v.mults, one |-> v.one, by |-> "negation"]

\* h=(m+1)>>1: half of the lower half, without the middle entry.
npot_h_short(m) == Shr(m + 1, 1)

\* h=(m+2)>>1
npot_h(m) == Shr(m + 2, 1)

RECURSIVE npot_inner(_, _, _, _, _, _)
\* for(k=0;k<j;++k) {real[i+k]=..; imag[i+k]=..;}
npot_inner(T, k, j, i, s, n) ==
    IF k >= j THEN T
    ELSE npot_inner(
             TwStore(T, i + k, expm1_times_seed(TwLoad(T, k), s, i, n), {k}),
             k + 1, j, i, s, n)

RECURSIVE npot_levels(_, _, _, _, _)
\* for(i=1;i<h;i*=2) with the seed dbcF_cexpm1_npot(i,n) and
\* j=(h<i*2?h-i:i)
npot_levels(T, i, h, n, inverse) ==
    IF i >= h THEN T
    ELSE npot_levels(
             npot_inner(T, 0, IF h < i * 2 THEN h - i ELSE i, i,
                        seed_turn(i, n, n, inverse), n),
             i * 2, h, n, inverse)

RECURSIVE npot_mirror_loop(_, _, _)
\* for(i=h;i<m;++i)
npot_mirror_loop(T, i, m) ==
    IF i >= m THEN T
    ELSE npot_mirror_loop(
             TwStore(T, i, mirrored(TwLoad(T, m - i), m), {m - i}), i + 1, m)

RECURSIVE npot_negate_loop(_, _, _)
\* for(i=0;i<m;++i)
npot_negate_loop(T, i, m) ==
    IF i >= m THEN T
    ELSE npot_negate_loop(
             TwStore(T, m + i, negated(TwLoad(T, i), m), {i}), i + 1, m)

\* dbcF_compute_twiddles_npot(n,real,imag,inverse) on a table of n entries.
dbcF_compute_twiddles_npot(n, inverse) ==
    LET m == Shr(n, 1)
        h == npot_h(m)
    IN IF n < 1 THEN EmptyTable(n)
       ELSE npot_negate_loop(
                npot_mirror_loop(
                    plus_one_loop(
                        npot_levels(TwStore(EmptyTable(n), 0, ExpM1Zero, {}),
                                    1, h, n, inverse),
                        h),
                    h, m),
                0, m)

\* Largest N of the chirp tables.
MaxChirpN == 12

ChirpTableCalls == {[n |-> N, inverse |-> inv] : N \in 1..MaxChirpN, inv \in {0, 1}}

\* dbcF_compute_twiddles_npot(2*n,tr,ti,inverse)
ComputeTwiddlesNpot ==
    /\ pc = "npot twiddles"
    /\ result' = <<dbcF_compute_twiddles_npot(2 * args.n, args.inverse)>>
    /\ pc' = "npot twiddles done"
    /\ UNCHANGED <<args, mem, RestVars>>

\* The powers of two below h.
SeedsBelow(h) == {DBCF_POW2(j) : j \in {x \in 0..MaxBits : DBCF_POW2(x) < h}}

(***************************************************************************)
(* C26.  For every N >= 1, dbcF_compute_twiddles_npot(2N, ..) stores every *)
(* entry k in [0, 2N), never loads an entry not yet stored, never indexes  *)
(* outside the table, and entry k is the rotation by k/(2N) of a turn:     *)
(* below h = floor((N+2)/2) by doubling from the seeds 2^j/(2N), in [h, N) *)
(* as the mirror of entry N-k, in [N, 2N) as the negation of entry k-N.    *)
(***************************************************************************)
C26_ChirpTable ==
    pc = "npot twiddles done" =>
        LET T == result[1]
            N == args.n
            h == (N + 2) \div 2
        IN /\ T.w = 0..(2 * N - 1)
           /\ ~T.bad
           /\ \A k \in DOMAIN T.tab :
                 /\ T.tab[k].one
                 /\ T.tab[k].turn = Rotation(k, 2 * N, args.inverse)
                 /\ T.tab[k].seeds \subseteq SeedsBelow(h)
                 /\ T.tab[k].by = IF k < h THEN "doubling"
                                  ELSE IF k < N THEN "mirror" ELSE "negation"

\* The inverse table of N = 6: entry 3 is doubled from the seeds 1/12 and
\* 2/12, entry 4 mirrors entry 2, entry 9 negates entry 3.
C26_Witness ==
    /\ pc = "npot twiddles done"
    /\ args = [n |-> 6, inverse |-> 1]
    /\ result[1].tab[3] = [turn |-> 3, seeds |-> {1, 2}, mults |-> 2,
                           one |-> TRUE, by |-> "doubling"]
    /\ result[1].tab[4].by = "mirror"
    /\ result[1].tab[4].turn = 4
    /\ result[1].tab[9].by = "negation"
    /\ result[1].tab[9].turn = 9

InitTwiddles ==
    /\ \/ pc = "twiddles" /\ args \in TwiddleCalls
       \/ pc = "block" /\ args \in BlockCalls
       \/ pc = "npot twiddles" /\ args \in ChirpTableCalls
    /\ result = <<>>
    /\ mem = InputMem
    /\ RestInit

NextTwiddles ==
    \/ ComputeTwiddles
    \/ ButterflyPassBlock
    \/ ComputeTwiddlesNpot

SpecTwiddles == InitTwiddles /\ [][NextTwiddles]_vars

(***************************************************************************)
(* dbcF_fft_npot, loop by loop.  While the driver runs, result holds its   *)
(* frame F: the loop variables i and j, the size m, the heap buffer as     *)
(* cells 0 .. 4m+4n-1 (buf), the cells stored through each of the six      *)
(* pointers (touched), the indices of the mirrored stores b[m-i] (mirror), *)
(* the destination elements stored so far, in order (stores), whether a    *)
(* source load came after a destination store or returned a value other    *)
(* than the caller's (stale), and whether a heap cell was used outside the *)
(* allocation or loaded before it was stored (fault).  A heap cell holds   *)
(* a kind and the angle, in units of 1/(2n) of a turn, it was made with.   *)
(***************************************************************************)
NoCell == [k |-> "none", v |-> 0]

ZeroCell == [k |-> "zero", v |-> 0]

\* ti=buf+4*m+1*n: room for n twiddles only.
npot_pointers_packed(m, n) ==
    [ar |-> 0 * m, ai |-> 1 * m, br |-> 2 * m, bi |-> 3 * m,
     tr |-> 4 * m + 0 * n, ti |-> 4 * m + 1 * n]

\* ar, ai, br, bi, tr, ti as offsets, in elements, from buf.
npot_pointers(m, n) ==
    [ar |-> 0 * m, ai |-> 1 * m, br |-> 2 * m, bi |-> 3 * m,
     tr |-> 4 * m + 0 * n, ti |-> 4 * m + 2 * n]

\* The elements dbcf_malloc is asked for, besides the alignment.
npot_cells(m, n) == 0..(4 * m + 4 * n - 1)

\* name[lo .. hi] = val(index), each through the pointer name.
HeapFill(F, name, lo, hi, val(_)) ==
    LET p == npot_pointers(F.m, F.n)[name]
        cells == {p + x : x \in lo..hi}
    IN [F EXCEPT !.buf = [c \in DOMAIN F.buf |->
                             IF c \in cells THEN val(c - p) ELSE F.buf[c]],
                 !.touched[name] = @ \cup cells,
                 !.fault = @ \/ ~(cells \subseteq DOMAIN F.buf)]

\* name[idx] = v
HeapStore(F, name, idx, v) ==
    LET Val(x) == v
    IN HeapFill(F, name, idx, idx, Val)

\* The value of name[idx].
HeapLoad(F, name, idx) ==
    LET c == npot_pointers(F.m, F.n)[name] + idx
    IN IF c \in DOMAIN F.buf THEN F.buf[c] ELSE NoCell

\* j+=(2*i+1), without the wrap.
chirp_next_unwrapped(j, i, n) == j + (2 * i + 1)

\* j+=(2*i+1); if(j>=2*n) j-=2*n;
chirp_next(j, i, n) ==
    LET j1 == j + (2 * i + 1)
    IN IF j1 >= 2 * n THEN j1 - 2 * n ELSE j1

\* i<=n: one iteration more.
chirp_loop_runs_once_more(i, n) == i <= n

\* The condition i<n of both chirp loops.
chirp_loop_runs(i, n) == i < n

\* Sizes that are no power of two.
MaxNpotN == 7

NpotSizes == {n \in 3..MaxNpotN : \A k \in 0..MaxBits : n # DBCF_POW2(k)}

\* Separate buffers; in place; in place backwards; both destination strides
\* zero (a call the entry point lets through).
NpotLayouts(n) ==
    {[sr |-> S1, si |-> S2, srs |-> 1, sis |-> 1,
      dr |-> D1, di |-> D2, drs |-> 1, dis |-> 1],
     [sr |-> S1, si |-> S2, srs |-> 1, sis |-> 1,
      dr |-> S1, di |-> S2, drs |-> 1, dis |-> 1],
     [sr |-> S1 + n - 1, si |-> S2 + n - 1, srs |-> -1, sis |-> -1,
      dr |-> S1 + n - 1, di |-> S2 + n - 1, drs |-> -1, dis |-> -1],
     [sr |-> S1, si |-> S2, srs |-> 1, sis |-> 1,
      dr |-> D1, di |-> D2, drs |-> 0, dis |-> 0]}

NpotCalls ==
    UNION {{dbc_fft_s_args(n, L.sr, L.si, L.srs, L.sis, L.dr, L.di, L.drs,
                           L.dis, inv, 1) : L \in NpotLayouts(n), inv \in {0, 1}}
           : n \in NpotSizes}

NpotKept == <<args, entry, mem0, nullRead, live, hmem, hbuf, mallocs, frees,
              allocFailed, badFree, heapFault, cached>>

InitNpot ==
    /\ pc = "npot"
    /\ args \in NpotCalls
    /\ result = <<>>
    /\ mem = InputMem
    /\ RestInit

\* The lines up to the first chirp loop: m, the six pointers, the table.
NpotSetup ==
    /\ pc = "npot"
    /\ LET n == args.n
           m == DBCF_POW2(npot_log2m(n, 0))
           T == dbcF_compute_twiddles_npot(2 * n, args.inverse)
           F0 == [i |-> 0, j |-> 0, n |-> n, m |-> m,
                  buf |-> [c \in npot_cells(m, n) |-> NoCell],
                  touched |-> [q \in {"ar", "ai", "br", "bi", "tr", "ti"} |-> {}],
                  mirror |-> {}, stores |-> <<>>, stale |-> FALSE,
                  fault |-> T.bad]
           Cos(x) == [k |-> "cos", v |-> T.tab[x].turn]
           Sin(x) == [k |-> "sin", v |-> T.tab[x].turn]
       IN result' = <<HeapFill(HeapFill(F0, "tr", 0, 2 * n - 1, Cos),
                               "ti", 0, 2 * n - 1, Sin)>>
    /\ pc' = "pre"
    /\ UNCHANGED <<mem, written, rd, opaque, NpotKept>>

\* One iteration of for(i=0,j=0;i<n;++i) before the transforms.
NpotPreChirpStep ==
    /\ pc = "pre"
    /\ chirp_loop_runs(result[1].i, args.n)
    /\ LET F == result[1]
           i == F.i
           c == HeapLoad(F, "tr", F.j)
           s == HeapLoad(F, "ti", F.j)
           xa == args.sr + i * args.srs
           ya == args.si + i * args.sis
           F1 == HeapStore(F, "ar", i, [k |-> "chirped", v |-> c.v])
           F2 == HeapStore(F1, "ai", i, [k |-> "chirped", v |-> s.v])
           F3 == HeapStore(F2, "br", i, [k |-> "cos", v |-> c.v])
           F4 == HeapStore(F3, "bi", i, [k |-> "-sin", v |-> s.v])
           F5 == IF i > 0
                 THEN HeapStore(F4, "br", F.m - i, [k |-> "cos", v |-> c.v])
                 ELSE F4
           F6 == IF i > 0
                 THEN [HeapStore(F5, "bi", F.m - i, [k |-> "-sin", v |-> s.v])
                          EXCEPT !.mirror = @ \cup {F.m - i}]
                 ELSE F5
       IN /\ rd' = rd \cup {xa, ya}
          /\ result' =
                 <<[F6 EXCEPT !.i = i + 1,
                              !.j = chirp_next(F.j, i, args.n),
                              !.stale = \/ @
                                        \/ written # {}
                                        \/ \E a \in {xa, ya} :
                                              \/ a \notin DOMAIN mem
                                              \/ mem[a] # mem0[a],
                              !.fault = \/ @
                                        \/ c.k # "cos"
                                        \/ s.k # "sin"]>>
    /\ UNCHANGED <<pc, mem, written, opaque, NpotKept>>

\* for(i=n;i<m;++i) {ar[i]=0; ai[i]=0;}  for(i=n;i<=m-n;++i) {br[i]=0; bi[i]=0;}
NpotPad ==
    /\ pc = "pre"
    /\ ~chirp_loop_runs(result[1].i, args.n)
    /\ LET F == result[1]
           Z(x) == ZeroCell
       IN result' = <<HeapFill(HeapFill(HeapFill(HeapFill(F,
                          "ar", args.n, F.m - 1, Z),
                          "ai", args.n, F.m - 1, Z),
                          "br", args.n, F.m - args.n, Z),
                          "bi", args.n, F.m - args.n, Z)>>
    /\ pc' = "fft"
    /\ UNCHANGED <<mem, written, rd, opaque, NpotKept>>

\* The three dbcF_fft_pot calls of size m, in place on (ar,ai) and (br,bi),
\* and the point-wise product between them.
NpotTransforms ==
    /\ pc = "fft"
    /\ LET F == result[1]
           P == npot_pointers(F.m, F.n)
           ab == {P[q] + x : q \in {"ar", "ai", "br", "bi"}, x \in 0..(F.m - 1)}
       IN result' =
              <<[F EXCEPT !.buf = [c \in DOMAIN F.buf |->
                                      IF c \in ab
                                      THEN [k |-> "transformed", v |-> 0]
                                      ELSE F.buf[c]],
                          !.i = 0, !.j = 0,
                          !.fault = \/ @
                                    \/ \E c \in ab : \/ c \notin DOMAIN F.buf
                                                     \/ F.buf[c] = NoCell]>>
    /\ pc' = "post"
    /\ UNCHANGED <<mem, written, rd, opaque, NpotKept>>

\* One iteration of for(i=0,j=0;i<n;++i) after the transforms.
NpotPostChirpStep ==
    /\ pc = "post"
    /\ chirp_loop_runs(result[1].i, args.n)
    /\ LET F == result[1]
           i == F.i
           c == HeapLoad(F, "tr", F.j)
           s == HeapLoad(F, "ti", F.j)
           x == HeapLoad(F, "ar", i)
           y == HeapLoad(F, "ai", i)
           xa == args.dr + i * args.drs
           ya == args.di + i * args.dis
       IN /\ mem' = [a \in DOMAIN mem |-> IF a \in {xa, ya} THEN 0 ELSE mem[a]]
          /\ written' = written \cup {xa, ya}
          /\ opaque' = opaque \cup {xa, ya}
          /\ result' =
                 <<[F EXCEPT !.i = i + 1,
                             !.j = chirp_next(F.j, i, args.n),
                             !.stores = @ \o <<[ch |-> "real", k |-> i],
                                               [ch |-> "imag", k |-> i]>>,
                             !.fault = \/ @
                                       \/ c.k # "cos"
                                       \/ s.k # "sin"
                                       \/ x.k # "transformed"
                                       \/ y.k # "transformed"]>>
    /\ UNCHANGED <<pc, rd, NpotKept>>

\* dbcf_free(mem); return 0;
NpotReturn ==
    /\ pc = "post"
    /\ ~chirp_loop_runs(result[1].i, args.n)
    /\ pc' = "done"
    /\ UNCHANGED <<result, mem, written, rd, opaque, NpotKept>>

NextNpot ==
    \/ NpotSetup
    \/ NpotPreChirpStep
    \/ NpotPad
    \/ NpotTransforms
    \/ NpotPostChirpStep
    \/ NpotReturn

SpecNpot == InitNpot /\ [][NextNpot]_vars

(***************************************************************************)
(* C27.  In both chirp loops, at the start of iteration i the running      *)
(* index j equals i^2 mod 2N and lies in [0, 2N): the single conditional   *)
(* subtraction is enough.                                                  *)
(***************************************************************************)
C27_ChirpIndex ==
    pc \in {"pre", "post"} =>
        LET F == result[1]
        IN /\ F.j \in 0..(2 * args.n - 1)
           /\ F.i <= args.n
           /\ F.j = (F.i * F.i) % (2 * args.n)

\* Iteration 5 of the second loop for N = 7: j = 25 mod 14, after wraps.
C27_Witness ==
    /\ pc = "post"
    /\ args.n = 7
    /\ result[1].i = 5
    /\ result[1].j = 11

(***************************************************************************)
(* C28.  For a size N >= 3 that is no power of two and m the smallest      *)
(* power of two >= 2N-1: before the first power-of-two transform every     *)
(* a[0 .. m) and b[0 .. m) is stored, a[i] = 0 for N <= i < m, b[i] = 0    *)
(* for N <= i <= m-N, b[m-i] = b[i] = conj(t_i) for 1 <= i < N, no         *)
(* mirrored store lands below N, and the six arrays ar, ai, br, bi, tr, ti *)
(* are pairwise disjoint inside the 4m+4N elements allocated.              *)
(***************************************************************************)
C28_PaddedBuffers ==
    pc = "fft" =>
        LET F == result[1]
            N == args.n
            m == F.m
            Q == {"ar", "ai", "br", "bi", "tr", "ti"}
            t(i) == Rotation(i * i, 2 * N, args.inverse)
        IN /\ m >= 2 * N - 1 /\ m < 2 * (2 * N - 1)
           /\ \E k \in 0..MaxBits : m = DBCF_POW2(k)
           /\ ~F.fault
           /\ \A q \in {"ar", "ai", "br", "bi"} : \A i \in 0..(m - 1) :
                 HeapLoad(F, q, i) # NoCell
           /\ \A i \in N..(m - 1) :
                 HeapLoad(F, "ar", i) = ZeroCell /\ HeapLoad(F, "ai", i) = ZeroCell
           /\ \A i \in N..(m - N) :
                 HeapLoad(F, "br", i) = ZeroCell /\ HeapLoad(F, "bi", i) = ZeroCell
           /\ \A i \in 0..(N - 1) :
                 /\ HeapLoad(F, "br", i) = [k |-> "cos", v |-> t(i)]
                 /\ HeapLoad(F, "bi", i) = [k |-> "-sin", v |-> t(i)]
           /\ \A i \in 1..(N - 1) :
                 /\ HeapLoad(F, "br", m - i) = HeapLoad(F, "br", i)
                 /\ HeapLoad(F, "bi", m - i) = HeapLoad(F, "bi", i)
           /\ F.mirror = {m - i : i \in 1..(N - 1)}
           /\ \A x \in F.mirror : x >= N
           /\ \A q \in Q : F.touched[q] \subseteq npot_cells(m, N)
           /\ \A q \in {"ar", "ai", "br", "bi"} : Cardinality(F.touched[q]) = m
           /\ \A q \in {"tr", "ti"} : Cardinality(F.touched[q]) = 2 * N
           /\ \A q1 \in Q : \A q2 \in Q \ {q1} :
                 F.touched[q1] \cap F.touched[q2] = {}

\* N = 5, m = 16, inverse: b[13] mirrors b[3] = conj(t_3) of angle 9/10,
\* b[11] and a[5] are padding.
C28_Witness ==
    /\ pc = "fft"
    /\ args.n = 5
    /\ args.inverse = 1
    /\ result[1].m = 16
    /\ HeapLoad(result[1], "br", 13) = [k |-> "cos", v |-> 9]
    /\ HeapLoad(result[1], "bi", 3) = [k |-> "-sin", v |-> 9]
    /\ HeapLoad(result[1], "br", 11) = ZeroCell
    /\ HeapLoad(result[1], "ar", 5) = ZeroCell

\* The 2N destination elements: N of either channel.
DstElements(n) == {[ch |-> c, k |-> i] : c \in {"real", "imag"}, i \in 0..(n - 1)}

(***************************************************************************)
(* C29.  In dbcF_fft_npot every source load happens before the first       *)
(* destination store, so a call in place (each destination channel the     *)
(* exact alias of its source channel) loads only the caller's original     *)
(* values; the destination is stored to only by the loop after the         *)
(* transforms, each of its 2N elements exactly once.                       *)
(***************************************************************************)
C29_LoadsBeforeStores ==
    /\ [](pc \in {"pre", "fft", "post", "done"} =>
             LET F == result[1]
             IN /\ ~F.stale
                /\ (pc \in {"pre", "fft"} => written = {} /\ F.stores = <<>>)
                /\ (pc \in {"post", "done"} =>
                       rd = Slots(args.sr, args.srs, args.n)
                            \cup Slots(args.si, args.sis, args.n))
                /\ \A x, y \in DOMAIN F.stores :
                      F.stores[x] = F.stores[y] => x = y
                /\ (pc = "done" =>
                       /\ {F.stores[x] : x \in DOMAIN F.stores} = DstElements(args.n)
                       /\ written = DstSlots(args)))
    /\ [][/\ (written' # written => pc = "post" /\ rd' = rd)
          /\ (rd' # rd => pc = "pre" /\ written = {})]_vars

\* A size-6 call in place has returned: the destination is the source.
C29_Witness ==
    /\ pc = "done"
    /\ args.n = 6
    /\ args.dr = args.sr /\ args.di = args.si
    /\ args.drs = args.srs /\ args.dis = args.sis
    /\ rd = written
    /\ Len(result[1].stores) = 12

====
